---- MODULE Spec2Model ----
(***************************************************************************)
(* The lazy array access layer of Lunagis2 (services/LazyDataset.ts):      *)
(* the process-wide SliceCache, the two ILazyDataset variants that share   *)
(* it, and the batched pixel time series of the flat-binary variant; and   *)
(* of AppProvider (context/AppContext.tsx) the pixel time series effect,   *)
(* the undo and redo stacks and the playback controls.                     *)
(*                                                                         *)
(* Sizes are counted in whole MiB: the source keeps currentSizeMB as       *)
(* byteLength / (1024 * 1024), a division by a power of two, so every sum  *)
(* and difference it forms is exact and the integer model loses nothing.   *)
(***************************************************************************)
EXTENDS Integers, Sequences, FiniteSets, TLC

\* ------------------------------------------------------------- bounds
\* The time indices the cache is exercised with (a one-digit and a two-digit one).
TimeIdx == {0, 12}
\* Date.now() takes the values 0..MaxClock (it stays at MaxClock after that).
MaxClock == 1
\* File names: a plain one, and one that extends it (by ":b").
FileIds == {"a", "a:b"}
\* byteLength / 2^20 of the slices that are stored.
Sizes == {80, 96, 300}

\* The slots of the getSlice calls that may be in flight together.
CallSlots == {1, 2}
\* Reads of the backing sources in one run.
MaxReads == 3
\* The time dimension of the dataset a pixel series is read from is 0..MaxTime.
MaxTime == 4
\* A batch size small enough for a series to take several batches.
ScaledBatch == 2

\* The longest series of the whole-batch runs: it spans two full batches of
\* BATCH_SIZE reads and a partial third.
MaxLongTime == 120

\* The longest input of packBinaryData: one unrolled group of 8 and a
\* remainder of 2.
MaxPackLen == 10

\* The most cells of a slice that is quantized: more than one packed byte.
MaxCells == 9

\* -------------------------------------------------- program constants
SLICE_CACHE_SIZE_MB == 256
\* getPixelTimeSeries: const batchSize = 50
BATCH_SIZE == 50

VARIABLES
    cache,          \* SliceCache.cache: the Map's entries, in iteration order
    currentSizeMB,  \* SliceCache.currentSizeMB
    now,            \* what Date.now() returns
    last,           \* the call that produced this state (history)
    insertRun,      \* history: the keys present, in insertion order, while every
                    \* entry present was inserted afresh and none was hit by a get
    latestGet,      \* history: the key whose get hit is the latest access to any
                    \* entry ("" when the latest access is a set, or the entry is gone)
    calls,          \* the getSlice calls in flight, by call slot (late: the
                    \* call started after its dataset's dispose() returned;
                    \* nreads: the reads the call has issued)
    reads,          \* reads issued to the backing sources so far
    metadata,       \* NpyLazyDataset.metadata of the dataset the series is read from
    batchSize,      \* getPixelTimeSeries' batchSize
    pts,            \* the getPixelTimeSeries call
    nc,             \* the NetCDFLazyDataset.getPixelTimeSeries call and the
                    \* shape of its dataset
    disposed,       \* history: the datasets whose dispose() has returned
    codec,          \* a decoding of raw data: its input, and its result once
                    \* it has run
    plot,           \* AppProvider: the selection, the getPixelTimeSeries calls
                    \* its effect has pending, and timeSeriesData
    edit,           \* AppProvider: artifacts, events, undoStack and redoStack
    player          \* AppProvider: isPlaying, isPaused, currentDateIndex,
                    \* timeRange and playbackRange.current

cacheVars == <<cache, currentSizeMB, now, last, insertRun, latestGet>>
histVars == <<insertRun, latestGet>>
sliceVars == <<calls, reads>>
seriesVars == <<metadata, batchSize, pts>>
ncVars == <<nc>>
lifeVars == <<disposed>>
codecVars == <<codec>>
appVars == <<plot, edit, player>>
vars == <<cacheVars, sliceVars, seriesVars, ncVars, lifeVars, codecVars,
          appVars>>

\* ------------------------------------------------------------ strings
\* Template-literal rendering of a non-negative integer.
Digit(d) == SubSeq("0123456789", d + 1, d + 1)

RECURSIVE NumToString(_)
NumToString(n) == IF n < 10 THEN Digit(n) ELSE NumToString(n \div 10) \o Digit(n % 10)

\* String.prototype.startsWith
startsWith(s, p) == Len(p) <= Len(s) /\ SubSeq(s, 1, Len(p)) = p

\* ---------------------------------------------------------- SliceCache
\* getKey: `${fileId}:${timeIndex}`
getKey(fileId, timeIndex) == fileId \o ":" \o NumToString(timeIndex)

\* A slice as the cache sees it: an object (obj names the allocation) and its
\* byteLength in MiB.
Slice(obj, len) == [obj |-> obj, len |-> len]

\* Mutant of IndexOfKey: no key is ever found, the Map behaves as a list.
IndexOfKeyNever(c, key) == 0

\* Map.get: the index of the entry stored under key, 0 when there is none.
IndexOfKey(c, key) ==
    IF \E i \in 1 .. Len(c) : c[i].key = key
    THEN CHOOSE i \in 1 .. Len(c) : c[i].key = key
    ELSE 0

RemoveAt(c, i) == SubSeq(c, 1, i - 1) \o SubSeq(c, i + 1, Len(c))

RECURSIVE SumLen(_)
SumLen(c) == IF c = <<>> THEN 0 ELSE Head(c).data.len + SumLen(Tail(c))

\* Mutant of OldestIndex: `<=` for `<`, so the last of the oldest entries wins.
OldestIndexLastWins(c) ==
    CHOOSE i \in 1 .. Len(c) :
        /\ \A j \in 1 .. Len(c) : c[i].lastAccess <= c[j].lastAccess
        /\ \A j \in (i + 1) .. Len(c) : c[j].lastAccess > c[i].lastAccess

\* Mutant of OldestIndex: `>` for `<`, the most recently used entry.
OldestIndexNewest(c) ==
    CHOOSE i \in 1 .. Len(c) :
        /\ \A j \in 1 .. Len(c) : c[i].lastAccess >= c[j].lastAccess
        /\ \A j \in 1 .. (i - 1) : c[j].lastAccess < c[i].lastAccess

\* evictLRU's scan: with `entry.lastAccess < oldestTime` the first entry, in
\* iteration order, of the least lastAccess.
OldestIndex(c) ==
    CHOOSE i \in 1 .. Len(c) :
        /\ \A j \in 1 .. Len(c) : c[i].lastAccess <= c[j].lastAccess
        /\ \A j \in 1 .. (i - 1) : c[j].lastAccess > c[i].lastAccess

\* evictLRU on st = [cache, size, ev]; ev collects the evicted keys in order.
evictLRU(st) ==
    IF st.cache = <<>> THEN st
    ELSE LET i == OldestIndex(st.cache) IN
         [cache |-> RemoveAt(st.cache, i),
          size  |-> st.size - st.cache[i].data.len,
          ev    |-> Append(st.ev, st.cache[i].key)]

\* Mutant of EvictWhile: the loop is an `if`, one eviction at most.
EvictWhileOnce(st, sizeMB) ==
    IF st.size + sizeMB > SLICE_CACHE_SIZE_MB /\ Len(st.cache) > 0
    THEN evictLRU(st) ELSE st

\* set's loop: while (currentSizeMB + sizeMB > SLICE_CACHE_SIZE_MB && size > 0)
RECURSIVE EvictWhile(_, _)
EvictWhile(st, sizeMB) ==
    IF st.size + sizeMB > SLICE_CACHE_SIZE_MB /\ Len(st.cache) > 0
    THEN EvictWhile(evictLRU(st), sizeMB)
    ELSE st

\* Mutant of StoreEntry: an entry over the whole budget is dropped.
StoreEntryRejectOversized(st, fileId, timeIndex, data, clock) ==
    IF data.len > SLICE_CACHE_SIZE_MB THEN st
    ELSE [st EXCEPT !.cache = Append(st.cache,
              [key |-> getKey(fileId, timeIndex), data |-> data,
               lastAccess |-> clock, fileId |-> fileId, timeIndex |-> timeIndex]),
              !.size = st.size + data.len]

\* set's last two statements: Map.set (an existing key keeps its place in the
\* iteration order) and currentSizeMB += sizeMB. fileId and timeIndex ride
\* along as history: the Map itself holds only key, data and lastAccess.
StoreEntry(st, fileId, timeIndex, data, clock) ==
    LET key == getKey(fileId, timeIndex)
        e   == [key |-> key, data |-> data, lastAccess |-> clock,
                fileId |-> fileId, timeIndex |-> timeIndex]
        i   == IndexOfKey(st.cache, key)
    IN  [st EXCEPT !.cache = IF i = 0 THEN Append(st.cache, e)
                             ELSE [st.cache EXCEPT ![i] = e],
                   !.size  = st.size + data.len]

\* SliceCache.set as a function of the cache state.
CacheSet(c, size, fileId, timeIndex, data, clock) ==
    StoreEntry(EvictWhile([cache |-> c, size |-> size, ev |-> <<>>], data.len),
               fileId, timeIndex, data, clock)

\* Mutant of CacheTouch: a hit removes the entry from the Map.
CacheTouchDrop(c, fileId, timeIndex, clock) ==
    LET i == IndexOfKey(c, getKey(fileId, timeIndex))
    IN  IF i = 0 THEN c ELSE RemoveAt(c, i)

\* SliceCache.get: the entry's lastAccess becomes Date.now().
CacheTouch(c, fileId, timeIndex, clock) ==
    LET i == IndexOfKey(c, getKey(fileId, timeIndex))
    IN  IF i = 0 THEN c ELSE [c EXCEPT ![i].lastAccess = clock]

\* JavaScript's undefined.
Undefined == [undefined |-> TRUE]

\* SliceCache.get's result: the data object, or undefined.
CacheLookup(c, fileId, timeIndex) ==
    LET i == IndexOfKey(c, getKey(fileId, timeIndex))
    IN  IF i = 0 THEN Undefined ELSE c[i].data

\* clearForFile's test of one key.
KeyOfFile(key, fileId) == startsWith(key, fileId \o ":")

RECURSIVE Keep(_, _)
Keep(c, fileId) ==
    IF c = <<>> THEN <<>>
    ELSE IF KeyOfFile(Head(c).key, fileId) THEN Keep(Tail(c), fileId)
         ELSE <<Head(c)>> \o Keep(Tail(c), fileId)

\* Mutant of CacheClear: nothing is removed.
CacheClearNothing(c, size, fileId) == [cache |-> c, size |-> size]

\* SliceCache.clearForFile as a function of the cache state.
CacheClear(c, size, fileId) ==
    [cache |-> Keep(c, fileId),
     size  |-> size - (SumLen(c) - SumLen(Keep(c, fileId)))]

\* SliceCache.getStatsForFile: the number and the total size of the entries
\* whose key passes clearForFile's test.
GetStatsForFile(c, fileId) ==
    [cacheSize   |-> Len(c) - Len(Keep(c, fileId)),
     totalSizeMB |-> SumLen(c) - SumLen(Keep(c, fileId))]

\* ------------------------------------------------- cache-level actions
NoCall == [op |-> "none"]

RECURSIVE Without(_, _)
Without(keys, gone) ==
    IF keys = <<>> THEN <<>>
    ELSE IF \E i \in 1 .. Len(gone) : gone[i] = Head(keys) THEN Without(Tail(keys), gone)
         ELSE <<Head(keys)>> \o Without(Tail(keys), gone)

RECURSIVE Present(_, _)
Present(keys, c) ==
    IF keys = <<>> THEN <<>>
    ELSE IF IndexOfKey(c, Head(keys)) = 0 THEN Present(Tail(keys), c)
         ELSE <<Head(keys)>> \o Present(Tail(keys), c)

Dirty == [clean |-> FALSE, keys |-> <<>>]

\* insertRun after a set of key that evicted `evicted` and left cache c.
RunAfterSet(run, key, evicted, c) ==
    LET kept == Without(run.keys, evicted) IN
    IF Len(c) = 1 THEN [clean |-> TRUE, keys |-> <<key>>]
    ELSE IF run.clean /\ ~(\E i \in 1 .. Len(kept) : kept[i] = key)
         THEN [clean |-> TRUE, keys |-> Append(kept, key)]
         ELSE Dirty

InitCache ==
    /\ cache = <<>>
    /\ currentSizeMB = 0
    /\ now = 0
    /\ last = NoCall
    /\ insertRun = [clean |-> TRUE, keys |-> <<>>]
    /\ latestGet = ""

\* What SliceCache.set does to the cache, r being CacheSet's result.
DoSet(r) ==
    /\ cache' = r.cache
    /\ currentSizeMB' = r.size
    /\ UNCHANGED now

\* What SliceCache.get does to the cache.
DoGet(fileId, timeIndex) ==
    /\ cache' = CacheTouch(cache, fileId, timeIndex, now)
    /\ UNCHANGED <<currentSizeMB, now>>

\* What SliceCache.clearForFile does to the cache.
DoClear(fileId) ==
    LET r == CacheClear(cache, currentSizeMB, fileId) IN
    /\ cache' = r.cache
    /\ currentSizeMB' = r.size
    /\ UNCHANGED now

\* globalSliceCache.set(fileId, timeIndex, data)
Set(fileId, timeIndex, data) ==
    LET r == CacheSet(cache, currentSizeMB, fileId, timeIndex, data, now) IN
    /\ DoSet(r)
    /\ last' = [op |-> "set", fileId |-> fileId, timeIndex |-> timeIndex,
                data |-> data, evicted |-> r.ev,
                run |-> insertRun, mru |-> latestGet, preLen |-> Len(cache)]
    /\ insertRun' = RunAfterSet(insertRun, getKey(fileId, timeIndex), r.ev, r.cache)
    /\ latestGet' = ""
    /\ UNCHANGED <<sliceVars, seriesVars, nc, disposed, codec, appVars>>

\* globalSliceCache.get(fileId, timeIndex)
Get(fileId, timeIndex) ==
    LET hit == IndexOfKey(cache, getKey(fileId, timeIndex)) # 0 IN
    /\ DoGet(fileId, timeIndex)
    /\ last' = [op |-> "get", fileId |-> fileId, timeIndex |-> timeIndex,
                data |-> CacheLookup(cache, fileId, timeIndex)]
    /\ insertRun' = IF hit THEN Dirty ELSE insertRun
    /\ latestGet' = IF hit THEN getKey(fileId, timeIndex) ELSE latestGet
    /\ UNCHANGED <<sliceVars, seriesVars, nc, disposed, codec, appVars>>

\* globalSliceCache.clearForFile(fileId)
ClearForFile(fileId) ==
    /\ DoClear(fileId)
    /\ last' = [op |-> "clear", fileId |-> fileId]
    /\ insertRun' = IF cache' = <<>> THEN [clean |-> TRUE, keys |-> <<>>]
                    ELSE IF insertRun.clean
                         THEN [insertRun EXCEPT !.keys = Present(insertRun.keys, cache')]
                         ELSE Dirty
    /\ latestGet' = IF IndexOfKey(cache', latestGet) = 0 THEN "" ELSE latestGet
    /\ UNCHANGED <<sliceVars, seriesVars, nc, disposed, codec, appVars>>

\* A millisecond passes.
Tick ==
    /\ now < MaxClock
    /\ now' = now + 1
    /\ last' = [op |-> "tick"]
    /\ UNCHANGED <<cache, currentSizeMB, insertRun, latestGet, sliceVars, seriesVars, nc, disposed, codec,
                   appVars>>

\* insertRun and latestGet (histVars) are the history of the calls made on the
\* cache directly (Set, Get, ClearForFile); the dataset operations leave them
\* alone.

Idle == [pc |-> "idle"]

\* null
Null == [null |-> TRUE]

\* AppProvider as it is mounted: nothing is selected and timeSeriesData is
\* null, there are no artifacts and no events and both stacks are empty,
\* nothing plays and there is no time range.
AppOff ==
    /\ plot = [selectedPixel |-> Null, selectedCellForPlot |-> Null,
               timeSeriesData |-> Null, pending |-> {}, calls |-> 0]
    /\ edit = [artifacts |-> <<>>, events |-> <<>>,
               undoStack |-> <<>>, redoStack |-> <<>>]
    /\ player = [isPlaying |-> FALSE, isPaused |-> FALSE,
                 currentDateIndex |-> Null, timeRange |-> Null,
                 playbackRange |-> Null, primaryDataLayer |-> FALSE]

\* No raw data is being decoded.
NoCodec == [pc |-> "idle"]

InitSlice ==
    /\ calls = [c \in CallSlots |-> Idle]
    /\ reads = 0
    /\ disposed = {}
    /\ codec = NoCodec

\* No pixel series is being read from a chunked dataset.
NcOff == [pc |-> "idle", shape |-> [time |-> 0, height |-> 1, width |-> 1]]

NoSeries == [pc |-> "idle"]

\* No pixel series is being read.
SeriesOff ==
    /\ metadata = [time |-> 0, height |-> 1, width |-> 1,
                   headerSize |-> 0, bytesPerValue |-> 1,
                   dataType |-> "float32"]
    /\ batchSize = BATCH_SIZE
    /\ pts = NoSeries
    /\ nc = NcOff

Init == InitCache /\ InitSlice /\ SeriesOff /\ AppOff

Next ==
    \/ \E f \in FileIds, t \in TimeIdx, s \in Sizes : Set(f, t, Slice(0, s))
    \/ \E f \in FileIds, t \in TimeIdx : Get(f, t)
    \/ \E f \in FileIds : ClearForFile(f)
    \/ Tick

Spec == Init /\ [][Next]_vars

\* ------------------------------------------------------------ datasets
\* The open datasets: a flat-binary one (NpyLazyDataset) over the file named
\* "a" and a chunked one (NetCDFLazyDataset) over the file named "a:b".
Datasets == {1, 2}
\* Two flat-binary datasets opened from different files that are both named
\* "a" (say, in different directories): dataset 1 and its twin, dataset 3.
Twins == {1, 3}
DsKind(ds) == IF ds = 2 THEN "netcdf" ELSE "npy"
\* NpyLazyDataset.fileId (file.name), NetCDFLazyDataset.filename
DsFileId(ds) == IF ds = 2 THEN "a:b" ELSE "a"
\* byteLength / 2^20 of one decoded slice of the dataset
DsSliceMB(ds) == IF ds = 2 THEN 100 ELSE 160
\* The time indices the dataset is asked for.
DsTimes(ds) == IF ds = 2 THEN {0} ELSE {0, 12}

\* Mutant of HitTest: the cache is not consulted, every call reads.
HitTestNever(cached) == FALSE

\* getSlice's `if (cached)`: a typed array is truthy, undefined is not.
HitTest(cached) == cached # Undefined

\* getSlice, up to its first await: the cache probe. A hit returns the cached
\* slice at once; a miss suspends the call in yieldToMain().
GetSliceStart(c, ds, t) ==
    LET cached == CacheLookup(cache, DsFileId(ds), t) IN
    /\ calls[c].pc = "idle"
    /\ DoGet(DsFileId(ds), t)
    /\ IF HitTest(cached)
       THEN /\ last' = [op |-> "getSlice", outcome |-> "hit", call |-> c,
                        ds |-> ds, t |-> t, ret |-> cached]
            /\ UNCHANGED calls
       ELSE /\ last' = [op |-> "getSlice", outcome |-> "miss", call |-> c,
                        ds |-> ds, t |-> t]
            /\ calls' = [calls EXCEPT ![c] = [pc |-> "yield", ds |-> ds, t |-> t,
                                              late |-> ds \in disposed,
                                              nreads |-> 0]]
    /\ UNCHANGED <<reads, histVars, seriesVars, nc, disposed, codec, appVars>>

\* NpyLazyDataset.getSlice resumes and awaits loadNpyTimeSlice: a read is
\* issued.
NpyLoad(c) ==
    /\ calls[c].pc = "yield"
    /\ DsKind(calls[c].ds) = "npy"
    /\ reads < MaxReads
    /\ reads' = reads + 1
    /\ calls' = [calls EXCEPT ![c] = [pc |-> "reading", ds |-> calls[c].ds,
                                      t |-> calls[c].t, late |-> calls[c].late,
                                      nreads |-> calls[c].nreads + 1,
                                      obj |-> reads + 1]]
    /\ last' = [op |-> "getSlice", outcome |-> "read", call |-> c,
                ds |-> calls[c].ds, t |-> calls[c].t, late |-> calls[c].late]
    /\ UNCHANGED <<cache, currentSizeMB, now, histVars, seriesVars, nc, disposed, codec, appVars>>

\* The slice a call stores and returns: the array its read produced, from
\* the source of the call's dataset (src, history).
StoredSlice(call) ==
    [obj |-> call.obj, len |-> DsSliceMB(call.ds), src |-> call.ds]

\* The tail of both getSlice variants: globalSliceCache.set, then return.
StoreAndReturn(c) ==
    LET call == calls[c]
        key  == getKey(DsFileId(call.ds), call.t)
        r    == CacheSet(cache, currentSizeMB, DsFileId(call.ds), call.t,
                         StoredSlice(call), now)
    IN  /\ DoSet(r)
        /\ calls' = [calls EXCEPT ![c] = Idle]
        /\ last' = [op |-> "getSlice", outcome |-> "stored", call |-> c,
                    ds |-> call.ds, t |-> call.t, ret |-> StoredSlice(call),
                    evicted |-> r.ev, reput |-> IndexOfKey(cache, key) # 0,
                    late |-> call.late]
        /\ UNCHANGED <<reads, histVars, seriesVars, nc, disposed, codec, appVars>>

\* Mutant of AfterFailure: a failed read is retried once.
AfterFailureRetry(call) ==
    IF call.nreads < 2
    THEN [pc |-> "yield", ds |-> call.ds, t |-> call.t, late |-> call.late,
          nreads |-> call.nreads]
    ELSE Idle

\* A call whose read failed: the error leaves getSlice, the call is over.
AfterFailure(call) == Idle

\* The call rejects with the error of its read (the read calls[c].obj).
Throw(c) ==
    /\ calls' = [calls EXCEPT ![c] = AfterFailure(calls[c])]
    /\ last' = [op |-> "getSlice", outcome |-> "threw", call |-> c,
                ds |-> calls[c].ds, t |-> calls[c].t,
                nreads |-> calls[c].nreads, error |-> calls[c].obj]
    /\ UNCHANGED <<cache, currentSizeMB, now, histVars, reads, seriesVars, nc, disposed, codec, appVars>>

\* loadNpyTimeSlice settles: the slice is stored and returned, or the error
\* is logged and rethrown.
NpyLoaded(c, ok) ==
    /\ calls[c].pc = "reading"
    /\ IF ok THEN StoreAndReturn(c) ELSE Throw(c)

\* NetCDFLazyDataset.getSlice resumes: dataset.slice(start, count) reads
\* synchronously (or throws), then the call yields a second time.
NcRead(c, ok) ==
    /\ calls[c].pc = "yield"
    /\ DsKind(calls[c].ds) = "netcdf"
    /\ reads < MaxReads
    /\ reads' = reads + 1
    /\ IF ok
       THEN /\ calls' = [calls EXCEPT ![c] = [pc |-> "yield2", ds |-> calls[c].ds,
                                              t |-> calls[c].t,
                                              late |-> calls[c].late,
                                              nreads |-> calls[c].nreads + 1,
                                              obj |-> reads + 1]]
            /\ last' = [op |-> "getSlice", outcome |-> "read", call |-> c,
                        ds |-> calls[c].ds, t |-> calls[c].t,
                        late |-> calls[c].late]
       ELSE /\ calls' = [calls EXCEPT ![c] =
                            AfterFailure([calls[c] EXCEPT !.nreads = @ + 1])]
            /\ last' = [op |-> "getSlice", outcome |-> "threw", call |-> c,
                        ds |-> calls[c].ds, t |-> calls[c].t,
                        late |-> calls[c].late,
                        nreads |-> calls[c].nreads + 1, error |-> reads + 1]
    /\ UNCHANGED <<cache, currentSizeMB, now, histVars, seriesVars, nc, disposed, codec, appVars>>

\* NetCDFLazyDataset.getSlice after its second yield: quantize, store, return.
NcStore(c) ==
    /\ calls[c].pc = "yield2"
    /\ StoreAndReturn(c)

\* getCachedSlice(timeIndex) of either variant
GetCachedSlice(ds, t) ==
    /\ DoGet(DsFileId(ds), t)
    /\ last' = [op |-> "getCachedSlice", ds |-> ds, t |-> t,
                ret |-> CacheLookup(cache, DsFileId(ds), t)]
    /\ UNCHANGED <<sliceVars, histVars, seriesVars, nc, disposed, codec, appVars>>

\* clearCache() of either variant
ClearCache(ds) ==
    /\ DoClear(DsFileId(ds))
    /\ last' = [op |-> "clearCache", ds |-> ds]
    /\ UNCHANGED <<sliceVars, histVars, seriesVars, nc, disposed, codec, appVars>>

NextSlice ==
    \/ \E c \in CallSlots, ds \in Datasets : \E t \in DsTimes(ds) : GetSliceStart(c, ds, t)
    \/ \E c \in CallSlots : NpyLoad(c)
    \/ \E c \in CallSlots, ok \in BOOLEAN : NpyLoaded(c, ok)
    \/ \E c \in CallSlots, ok \in BOOLEAN : NcRead(c, ok)
    \/ \E c \in CallSlots : NcStore(c)
    \/ \E ds \in Datasets : \E t \in DsTimes(ds) : GetCachedSlice(ds, t)
    \/ \E ds \in Datasets : ClearCache(ds)
    \/ Tick

SpecSlice == Init /\ [][NextSlice]_vars

\* The twin datasets, each asked for slices; both stay open.
NextTwins ==
    \/ \E c \in CallSlots, ds \in Twins :
           \E t \in DsTimes(ds) : GetSliceStart(c, ds, t)
    \/ \E c \in CallSlots : NpyLoad(c)
    \/ \E c \in CallSlots, ok \in BOOLEAN : NpyLoaded(c, ok)
    \/ \E ds \in Twins : \E t \in DsTimes(ds) : GetCachedSlice(ds, t)

SpecTwins == Init /\ [][NextTwins]_vars

\* ------------------------------------------------------------ disposal
\* The time dimension of the dataset: metadata.dimensions.time, shape[0].
DsTime(ds) == IF ds = 2 THEN 1 ELSE 13

\* The time indices getSlice is called with: the first one, and the first
\* one past the time dimension.
LifeTimes(ds) == {0, DsTime(ds)}

\* Mutant of CloseOutcome: no try/catch around file.close().
CloseOutcomeUncaught(kind, closeOk) ==
    [raised |-> kind = "netcdf" /\ ~closeOk, logged |-> FALSE]

\* What dispose() does after clearing the cache. NetCDFLazyDataset closes
\* and unlinks the file inside try/catch, and the catch logs the error;
\* NpyLazyDataset releases nothing.
CloseOutcome(kind, closeOk) ==
    [raised |-> FALSE, logged |-> kind = "netcdf" /\ ~closeOk]

\* dispose() of either variant: globalSliceCache.clearForFile first, then
\* the release of the file, which succeeds or fails.
Dispose(ds, closeOk) ==
    LET out == CloseOutcome(DsKind(ds), closeOk) IN
    /\ ds \notin disposed
    /\ closeOk \/ DsKind(ds) = "netcdf"
    /\ DoClear(DsFileId(ds))
    /\ disposed' = disposed \cup {ds}
    /\ last' = [op |-> "dispose", ds |-> ds, closeFailed |-> ~closeOk,
                raised |-> out.raised, logged |-> out.logged,
                purged |-> Len(cache) - Len(Keep(cache, DsFileId(ds)))]
    /\ UNCHANGED <<sliceVars, histVars, seriesVars, nc, codec, appVars>>

NextLife ==
    \/ \E c \in CallSlots, ds \in Datasets :
           \E t \in LifeTimes(ds) : GetSliceStart(c, ds, t)
    \/ \E c \in CallSlots : NpyLoad(c)
    \/ \E c \in CallSlots, ok \in BOOLEAN : NpyLoaded(c, ok)
    \/ \E c \in CallSlots, ok \in BOOLEAN : NcRead(c, ok)
    \/ \E c \in CallSlots : NcStore(c)
    \/ \E ds \in Datasets, closeOk \in BOOLEAN : Dispose(ds, closeOk)

SpecLife == Init /\ [][NextLife]_vars

\* ---------------------------------------------------- pixel time series
\* The metadata of the flat-binary file: its dimensions, header size,
\* element width and element type (StreamingNpyMetadata, from the header
\* parser).
Metadatas ==
    [time : 0 .. MaxTime, height : {2}, width : {2},
     headerSize : {128}, bytesPerValue : {4}, dataType : {"float32", "int32"}]

\* The file's values, by element index (each element distinct).
FileElem(e) == 100 + e

\* Every integer up to 2^24 is a 32-bit float; above it only every second
\* one is, then every fourth, and so on.
Float32Exact == 16777216

\* The element e of the file as createTypedArray(buffer, dataType) decodes
\* it: a float32 file holds floats, an int32 file holds integers, here
\* beyond the range float32 represents exactly.
FileValue(m, e) ==
    IF m.dataType = "int32" THEN Float32Exact + FileElem(e) ELSE FileElem(e)

\* readFileRange(file, offset, bytesPerValue), decoded by createTypedArray:
\* the element that starts at the byte offset.
ReadFileRange(m, offset) ==
    FileValue(m, (offset - m.headerSize) \div m.bytesPerValue)

\* The spacing of the 32-bit floats around the integer v >= 0.
RECURSIVE Ulp(_)
Ulp(v) == IF v < Float32Exact THEN 1 ELSE 2 * Ulp(v \div 2)

\* new Float32Array(data), one element: the nearest 32-bit float, ties to the
\* even mantissa.
ToFloat32(v) ==
    LET u == Ulp(v)
        q == v \div u
        r == v % u
    IN  IF 2 * r < u THEN q * u
        ELSE IF 2 * r > u THEN (q + 1) * u
        ELSE IF q % 2 = 0 THEN q * u ELSE (q + 1) * u

\* loadNpyTimeSlice(file, metadata, timeIndex): the height * width elements
\* of slice t, a contiguous run of the time-major file, as a typed array of
\* the file's element type.
LoadNpyTimeSlice(m, t) ==
    [k \in 0 .. (m.height * m.width - 1) |->
        FileValue(m, t * m.height * m.width + k)]

\* What getSlice(t) stores and returns: the loaded array itself when it is a
\* Float32Array, else new Float32Array(data).
FloatData(m, t) ==
    LET data == LoadNpyTimeSlice(m, t) IN
    IF m.dataType = "float32" THEN data
    ELSE [k \in DOMAIN data |-> ToFloat32(data[k])]

\* readValue's offset for pixel (y, x) at time t.
PixelOffset(m, t, y, x) ==
    m.headerSize + (t * m.height * m.width * m.bytesPerValue)
                 + (y * m.width * m.bytesPerValue)
                 + (x * m.bytesPerValue)

\* An empty slot of `new Array(time)`.
Empty == -1

\* Mutant of BatchTimes: t = j, the batch's offset i is forgotten.
BatchTimesNoOffset(i, time, size) ==
    {j \in 0 .. (size - 1) : i + j < time}

\* Mutant of BatchTimes: no batching, every remaining read is issued at once.
BatchTimesAll(i, time, size) ==
    {t \in 0 .. (time - 1) : i <= t}

\* Mutant of BatchTimes: the loop test is i + j <= time.
BatchTimesOffByOne(i, time, size) ==
    {i + j : j \in {k \in 0 .. (size - 1) : i + k <= time}}

\* The inner loop: for (j = 0; j < batchSize && i + j < time; j++) t = i + j
BatchTimes(i, time, size) ==
    {i + j : j \in {k \in 0 .. (size - 1) : i + k < time}}

\* Mutant of WriteResult: results.push(val), the order of completion
\* (p.order holds the reads that completed before this one).
WriteResultPush(p, t, val) ==
    [p.results EXCEPT ![Len(p.order)] = val]

\* readValue(t).then(val => { results[t] = val; })
WriteResult(p, t, val) ==
    [p.results EXCEPT ![t] = val]

\* Mutant of RejectCall: the failure of a read is swallowed, as with
\* Promise.allSettled, and the call goes on.
RejectIgnored(p, t) ==
    [p EXCEPT !.pending = p.pending \ {t}, !.failed = p.failed \cup {t}]

\* The read of time index t fails: Promise.all rejects with the first
\* failure of its batch and the await throws out of getPixelTimeSeries.
RejectCall(p, t) ==
    [p EXCEPT !.pending = p.pending \ {t},
              !.failed = p.failed \cup {t},
              !.pc = "failed",
              !.error = IF p.pc = "failed" THEN p.error ELSE t]

\* The cache is empty, no getSlice is in flight, and a dataset is open whose
\* pixel series will be read.
InitSeries ==
    /\ InitCache
    /\ AppOff
    /\ InitSlice
    /\ metadata \in Metadatas
    /\ batchSize \in {ScaledBatch, BATCH_SIZE}
    /\ pts = NoSeries
    /\ nc = NcOff

\* The byte offsets readValue passes to readFileRange for the time indices
\* ts, in the order the inner loop calls it.
RECURSIVE IssuedOffsets(_, _, _, _)
IssuedOffsets(ts, m, y, x) ==
    IF ts = {} THEN <<>>
    ELSE LET t == CHOOSE u \in ts : \A v \in ts : u <= v
         IN  <<PixelOffset(m, t, y, x)>> \o IssuedOffsets(ts \ {t}, m, y, x)

\* getPixelTimeSeries(y, x) up to its first await: results = new Array(time);
\* with time = 0 the loop is not entered and the empty array is returned.
PtsStart(y, x) ==
    /\ pts.pc = "idle"
    /\ pts' = [pc      |-> IF 0 < metadata.time THEN "yield" ELSE "returned",
               y       |-> y,
               x       |-> x,
               i       |-> 0,
               pending |-> {},
               results |-> [t \in 0 .. (metadata.time - 1) |-> Empty],
               order   |-> <<>>,
               batches |-> <<>>,
               failed  |-> {},
               error   |-> Empty,
               issued  |-> <<>>]
    /\ last' = [op |-> "getPixelTimeSeries", step |-> "start"]
    /\ UNCHANGED <<cache, currentSizeMB, now, histVars, sliceVars, metadata, batchSize, nc, disposed, codec,
                   appVars>>

\* After yieldToMain(): the batch's reads are all issued, then awaited together.
PtsIssueBatch ==
    LET ts == BatchTimes(pts.i, metadata.time, batchSize) IN
    /\ pts.pc = "yield"
    /\ pts' = [pts EXCEPT !.pc = "await", !.pending = ts,
                          !.batches = Append(pts.batches, Cardinality(ts)),
                          !.issued = pts.issued \o
                                     IssuedOffsets(ts, metadata, pts.y, pts.x)]
    /\ last' = [op |-> "getPixelTimeSeries", step |-> "issue"]
    /\ UNCHANGED <<cache, currentSizeMB, now, histVars, sliceVars, metadata, batchSize, nc, disposed, codec,
                   appVars>>

\* Mutant of SeriesCache: readValue first probes the cache for the slice of
\* t (globalSliceCache.get), which makes a cached slice the most recent.
SeriesCacheProbe(c, fileId, t, clock) == CacheTouch(c, fileId, t, clock)

\* The cache after readValue(t): the value is read from the file with
\* readFileRange, and the cache is not consulted.
SeriesCache(c, fileId, t, clock) == c

\* One read settles. A value is written to its slot; a failure rejects
\* Promise.all and with it the call, while the batch's other reads run on.
PtsReadDone(t, ok) ==
    /\ pts.pc \in {"await", "failed"}
    /\ t \in pts.pending
    /\ pts' = IF ok
              THEN [pts EXCEPT !.pending = pts.pending \ {t},
                               !.order = Append(pts.order, t),
                               !.results = WriteResult(pts, t,
                                   ReadFileRange(metadata,
                                       PixelOffset(metadata, t, pts.y, pts.x)))]
              ELSE RejectCall(pts, t)
    /\ last' = [op |-> "getPixelTimeSeries", step |-> "read", t |-> t, ok |-> ok]
    /\ cache' = SeriesCache(cache, DsFileId(1), t, now)
    /\ UNCHANGED <<currentSizeMB, now, histVars, sliceVars, metadata, batchSize, nc, disposed, codec,
                   appVars>>

\* Promise.all resolves: i += batchSize, and the loop test.
PtsBatchDone ==
    /\ pts.pc = "await"
    /\ pts.pending = {}
    /\ pts' = [pts EXCEPT !.i = pts.i + batchSize,
                          !.pc = IF pts.i + batchSize < metadata.time
                                 THEN "yield" ELSE "returned"]
    /\ last' = [op |-> "getPixelTimeSeries", step |-> "batchDone"]
    /\ UNCHANGED <<cache, currentSizeMB, now, histVars, sliceVars, metadata, batchSize, nc, disposed, codec,
                   appVars>>

NextSeries ==
    \/ \E y \in 0 .. 1, x \in 0 .. 1 : PtsStart(y, x)
    \/ PtsIssueBatch
    \/ \E t \in 0 .. MaxTime, ok \in BOOLEAN : PtsReadDone(t, ok)
    \/ PtsBatchDone

SpecSeries == InitSeries /\ [][NextSeries]_vars

\* The element order the header parser reports for the data region: time
\* slowest-varying, or time fastest-varying.
LayoutOrders == {"timeMajor", "timeMinor"}

\* A flat-binary dataset is open whose metadata also tells the layout of the
\* file; the dataset keeps the metadata as it is given.
InitLayout ==
    /\ InitCache
    /\ AppOff
    /\ InitSlice
    /\ metadata \in [time : 0 .. MaxTime, height : {2}, width : {2},
                     headerSize : {128}, bytesPerValue : {4},
                     dataType : {"float32"}, layoutOrder : LayoutOrders]
    /\ batchSize \in {ScaledBatch, BATCH_SIZE}
    /\ pts = NoSeries
    /\ nc = NcOff

SpecLayout == InitLayout /\ [][NextSeries]_vars

\* Every read that is issued completes, with a value: no read fails and
\* none stays pending for ever; the event loop runs every continuation.
PtsReadOk ==
    /\ pts.pc = "await"
    /\ \E t \in 0 .. MaxTime : PtsReadDone(t, TRUE)

NextSeriesOk ==
    \/ \E y \in 0 .. 1, x \in 0 .. 1 : PtsStart(y, x)
    \/ PtsIssueBatch
    \/ PtsReadOk
    \/ PtsBatchDone

SpecSeriesLive ==
    /\ InitSeries
    /\ [][NextSeriesOk]_vars
    /\ WF_vars(PtsIssueBatch)
    /\ WF_vars(PtsReadOk)
    /\ WF_vars(PtsBatchDone)

\* Long series, read with the batch size of the code. The reads of a batch
\* settle one at a time, in time order, and none fails.
InitBatches ==
    /\ InitCache
    /\ AppOff
    /\ InitSlice
    /\ metadata \in [time : 0 .. MaxLongTime, height : {2}, width : {2},
                     headerSize : {128}, bytesPerValue : {4},
                     dataType : {"float32"}]
    /\ batchSize = BATCH_SIZE
    /\ pts = NoSeries
    /\ nc = NcOff

PtsReadInOrder ==
    /\ pts.pc = "await"
    /\ \E t \in pts.pending :
           /\ \A u \in pts.pending : t <= u
           /\ PtsReadDone(t, TRUE)

NextBatches ==
    \/ \E y \in 0 .. 1, x \in 0 .. 1 : PtsStart(y, x)
    \/ PtsIssueBatch
    \/ PtsReadInOrder
    \/ PtsBatchDone

SpecBatches == InitBatches /\ [][NextBatches]_vars

\* ------------------------------------------- chunked pixel time series
\* this.dataset.shape of the chunked dataset: [time, height, width].
Shapes == [time : 0 .. MaxTime, height : 1 .. 2, width : 1 .. 2]

\* The whole variable as one time-major flat buffer, cut to its first n
\* elements (n = time * height * width: the whole buffer).
BufferPrefix(n) == [e \in 0 .. (n - 1) |-> FileElem(e)]

\* dataset.slice([0, y, x], [timeSteps, 1, 1]) of a correct reader.
Hyperslab(shape, y, x) ==
    [t \in 0 .. (shape.time - 1) |->
        FileElem(t * shape.height * shape.width + y * shape.width + x)]

\* rawData.length
Length(raw) == Cardinality(DOMAIN raw)

\* Mutant of SeriesFromRaw: the fallback indexes t * stride, the pixel's
\* offset is forgotten.
SeriesFromRawNoOffset(shape, y, x, rawData) ==
    LET timeSteps == shape.time
        stride    == shape.height * shape.width
    IN  IF Length(rawData) = timeSteps THEN rawData
        ELSE IF Length(rawData) = timeSteps * stride
             THEN [t \in 0 .. (timeSteps - 1) |-> rawData[t * stride]]
             ELSE rawData

\* Mutant of SeriesFromRaw: no fallback, Array.from(rawData) always.
SeriesFromRawNoFallback(shape, y, x, rawData) == rawData

\* The result getPixelTimeSeries builds from what the reader returned:
\* Array.from(rawData) when its length is timeSteps, the strided elements
\* when it is timeSteps * stride, and Array.from(rawData) otherwise.
SeriesFromRaw(shape, y, x, rawData) ==
    LET timeSteps == shape.time
        stride    == shape.height * shape.width
        offset    == y * shape.width + x
    IN  IF Length(rawData) = timeSteps THEN rawData
        ELSE IF Length(rawData) = timeSteps * stride
             THEN [t \in 0 .. (timeSteps - 1) |-> rawData[t * stride + offset]]
             ELSE rawData

\* A chunked dataset is open; no call is in flight and the cache is empty.
InitNcSeries ==
    /\ InitCache
    /\ AppOff
    /\ InitSlice
    /\ metadata = [time |-> 0, height |-> 1, width |-> 1,
                   headerSize |-> 0, bytesPerValue |-> 1,
                   dataType |-> "float32"]
    /\ batchSize = BATCH_SIZE
    /\ pts = NoSeries
    /\ nc \in [pc : {"idle"}, shape : Shapes]

\* NetCDFLazyDataset.getPixelTimeSeries(y, x) up to its await yieldToMain().
NcPtsStart(y, x) ==
    /\ nc.pc = "idle"
    /\ y < nc.shape.height
    /\ x < nc.shape.width
    /\ nc' = [pc |-> "yield", shape |-> nc.shape, y |-> y, x |-> x]
    /\ last' = [op |-> "ncGetPixelTimeSeries", step |-> "start"]
    /\ UNCHANGED <<cache, currentSizeMB, now, histVars, sliceVars, seriesVars,
                   disposed, codec, appVars>>

\* The rest of the call, with rawData the array the reader returned.
NcPtsReturn(rawData, reader) ==
    /\ nc.pc = "yield"
    /\ nc' = [nc EXCEPT !.pc = "returned"] @@
             [rawData |-> rawData, reader |-> reader,
              result |-> SeriesFromRaw(nc.shape, nc.y, nc.x, rawData)]
    /\ last' = [op |-> "ncGetPixelTimeSeries", step |-> "return"]
    /\ UNCHANGED <<cache, currentSizeMB, now, histVars, sliceVars, seriesVars,
                   disposed, codec, appVars>>

\* dataset.slice returns the requested hyperslab.
NcPtsHyperslab ==
    /\ nc.pc = "yield"
    /\ NcPtsReturn(Hyperslab(nc.shape, nc.y, nc.x), "hyperslab")

\* dataset.slice returns the whole variable instead (the known reader bug).
NcPtsFullBuffer ==
    /\ nc.pc = "yield"
    /\ NcPtsReturn(BufferPrefix(nc.shape.time * nc.shape.height * nc.shape.width),
                   "full")

\* dataset.slice returns an array of some other length.
NcPtsOtherLength(n) ==
    /\ n < nc.shape.time * nc.shape.height * nc.shape.width
    /\ NcPtsReturn(BufferPrefix(n), "other")

\* dataset.slice throws; nothing catches it.
NcPtsThrow ==
    /\ nc.pc = "yield"
    /\ nc' = [nc EXCEPT !.pc = "threw"]
    /\ last' = [op |-> "ncGetPixelTimeSeries", step |-> "throw"]
    /\ UNCHANGED <<cache, currentSizeMB, now, histVars, sliceVars, seriesVars,
                   disposed, codec, appVars>>

NextNcSeries ==
    \/ \E y \in 0 .. 1, x \in 0 .. 1 : NcPtsStart(y, x)
    \/ NcPtsHyperslab
    \/ NcPtsFullBuffer
    \/ \E n \in 0 .. (MaxTime * 4) : NcPtsOtherLength(n)
    \/ NcPtsThrow

SpecNcSeries == InitNcSeries /\ [][NextNcSeries]_vars

\* Either variant is open: a flat-binary dataset whose metadata is drawn, or
\* a chunked one whose shape is drawn.
InitAnySeries ==
    /\ InitCache
    /\ AppOff
    /\ InitSlice
    /\ batchSize \in {ScaledBatch, BATCH_SIZE}
    /\ pts = NoSeries
    /\ \/ metadata \in Metadatas /\ nc = NcOff
       \/ /\ metadata = [time |-> 0, height |-> 1, width |-> 1,
                          headerSize |-> 0, bytesPerValue |-> 1,
                          dataType |-> "float32"]
          /\ nc \in [pc : {"idle"}, shape : Shapes]

NextAnySeries ==
    \/ NextSeries
    \/ NextNcSeries

SpecAnySeries == InitAnySeries /\ [][NextAnySeries]_vars

\* Pixel series are read from both datasets while slices are put into the
\* cache and time passes. The flat-binary dataset is the file "a", the
\* chunked one the file "a:b".
InitSeriesCache ==
    /\ InitCache
    /\ AppOff
    /\ InitSlice
    /\ metadata = [time |-> ScaledBatch, height |-> 2, width |-> 2,
                   headerSize |-> 128, bytesPerValue |-> 4,
                   dataType |-> "float32"]
    /\ batchSize = ScaledBatch
    /\ pts = NoSeries
    /\ nc = [pc |-> "idle",
             shape |-> [time |-> ScaledBatch, height |-> 2, width |-> 2]]

NextSeriesCache ==
    \/ \E f \in FileIds, s \in {80, 300} : Set(f, 0, Slice(0, s))
    \/ Tick
    \/ PtsStart(1, 0)
    \/ PtsIssueBatch
    \/ \E t \in 0 .. MaxTime, ok \in BOOLEAN : PtsReadDone(t, ok)
    \/ PtsBatchDone
    \/ NcPtsStart(1, 0)
    \/ NcPtsHyperslab
    \/ NcPtsThrow

SpecSeriesCache == InitSeriesCache /\ [][NextSeriesCache]_vars

\* ---------------------------------------------------------- bit packing
\* An element of a typed array: a number, or NaN (a Float32Array may hold
\* it).
Num(v) == [nan |-> FALSE, v |-> v]
NaN == [nan |-> TRUE, v |-> 0]
PackValues == {Num(0), Num(1), NaN}

\* `if (data[i])`: 0 and NaN are falsy, every other number is truthy.
Truthy(x) == ~x.nan /\ x.v # 0

\* byte |= m, for m a power of two.
BitOr(byte, m) == IF (byte \div m) % 2 = 1 THEN byte ELSE byte + m

\* i >>> 3
ByteIndex(i) == i \div 8

\* Mutant of BitIndex: the bits of a byte are filled from the top.
BitIndexFromTop(i) == 7 - (i % 8)

\* i & 7
BitIndex(i) == i % 8

\* The body of the unrolled loop: the byte of data[i] .. data[i + 7].
MainByte(data, i) ==
    LET b0 == IF Truthy(data[i])     THEN BitOr(0, 1)    ELSE 0
        b1 == IF Truthy(data[i + 1]) THEN BitOr(b0, 2)   ELSE b0
        b2 == IF Truthy(data[i + 2]) THEN BitOr(b1, 4)   ELSE b1
        b3 == IF Truthy(data[i + 3]) THEN BitOr(b2, 8)   ELSE b2
        b4 == IF Truthy(data[i + 4]) THEN BitOr(b3, 16)  ELSE b3
        b5 == IF Truthy(data[i + 5]) THEN BitOr(b4, 32)  ELSE b4
        b6 == IF Truthy(data[i + 6]) THEN BitOr(b5, 64)  ELSE b5
        b7 == IF Truthy(data[i + 7]) THEN BitOr(b6, 128) ELSE b6
    IN  b7

\* The remainder loop, from index i on.
RECURSIVE Remainder(_, _, _, _)
Remainder(packed, data, i, length) ==
    IF i >= length THEN packed
    ELSE Remainder(IF Truthy(data[i])
                   THEN [packed EXCEPT ![ByteIndex(i)] = BitOr(@, 2 ^ BitIndex(i))]
                   ELSE packed,
                   data, i + 1, length)

\* packBinaryData(data), for data indexed from 0.
packBinaryData(data) ==
    LET length        == Cardinality(DOMAIN data)
        packedLength  == (length + 7) \div 8
        mainLoopLimit == length - (length % 8)
        main == [j \in 0 .. (packedLength - 1) |->
                    IF 8 * j < mainLoopLimit THEN MainByte(data, 8 * j) ELSE 0]
    IN  Remainder(main, data, mainLoopLimit, length)

\* The typed arrays of up to MaxPackLen elements.
PackInputs ==
    UNION {[0 .. (n - 1) -> PackValues] : n \in 0 .. MaxPackLen}

\* Nothing else is going on; an array is about to be packed.
InitPack ==
    /\ InitCache
    /\ AppOff
    /\ calls = [c \in CallSlots |-> Idle]
    /\ reads = 0
    /\ disposed = {}
    /\ SeriesOff
    /\ codec \in [pc : {"input"}, data : PackInputs]

Pack ==
    /\ codec.pc = "input"
    /\ codec' = [pc |-> "packed", data |-> codec.data,
                 packed |-> packBinaryData(codec.data)]
    /\ last' = [op |-> "packBinaryData"]
    /\ UNCHANGED <<cache, currentSizeMB, now, histVars, sliceVars, seriesVars,
                   nc, disposed, appVars>>

NextPack == Pack

SpecPack == InitPack /\ [][NextPack]_vars

\* --------------------------------------------------------- quantization
\* The array types a reader hands back as rawData.
RawTypes ==
    {"Uint8Array", "Int8Array", "Int16Array", "Int32Array", "Float32Array",
     "Float64Array"}

\* dataVarName: the names the quantization rules test, and another one.
VarNames ==
    {"illumination", "orbiter_visibility", "dte_visibility", "night_flag",
     "darkness_duration", "temperature"}

\* Mutant of TypedAs: rawData is passed on whatever its type.
TypedAsPassThrough(rawType, target) == rawType

\* `rawData instanceof T ? rawData : new T(rawData)`: the type of the result.
TypedAs(rawType, target) == IF rawType = target THEN rawType ELSE target

\* The representation of the slice getSlice builds from rawData of n cells:
\* the rules of NetCDFLazyDataset (by dataVarName), and NpyLazyDataset's
\* Float32Array.
Quantize(kind, dataVarName, rawType, n) ==
    IF kind = "npy"
    THEN [type |-> TypedAs(rawType, "Float32Array"), length |-> n,
          packed |-> FALSE]
    ELSE IF dataVarName \in {"illumination", "orbiter_visibility"}
    THEN [type |-> TypedAs(rawType, "Uint8Array"), length |-> n,
          packed |-> FALSE]
    ELSE IF dataVarName \in {"dte_visibility", "night_flag"}
    THEN LET input == IF rawType \in {"Float32Array", "Int8Array", "Uint8Array"}
                      THEN rawType ELSE TypedAs(rawType, "Float32Array")
             bytes == packBinaryData([i \in 0 .. (n - 1) |-> Num(1)])
         IN  [type |-> "Uint8Array", length |-> Cardinality(DOMAIN bytes),
              packed |-> TRUE]
    ELSE IF dataVarName = "darkness_duration"
    THEN [type |-> TypedAs(rawType, "Int16Array"), length |-> n,
          packed |-> FALSE]
    ELSE [type |-> TypedAs(rawType, "Float32Array"), length |-> n,
          packed |-> FALSE]

\* Nothing else is going on; a reader has returned rawData for a slice.
InitQuantize ==
    /\ InitCache
    /\ AppOff
    /\ calls = [c \in CallSlots |-> Idle]
    /\ reads = 0
    /\ disposed = {}
    /\ SeriesOff
    /\ codec \in [pc : {"raw"}, kind : {"npy", "netcdf"},
                  dataVarName : VarNames, rawType : RawTypes,
                  length : 0 .. MaxCells]

QuantizeSlice ==
    /\ codec.pc = "raw"
    /\ codec' = [pc |-> "quantized", kind |-> codec.kind,
                 dataVarName |-> codec.dataVarName, rawType |-> codec.rawType,
                 length |-> codec.length,
                 result |-> Quantize(codec.kind, codec.dataVarName,
                                     codec.rawType, codec.length)]
    /\ last' = [op |-> "quantize"]
    /\ UNCHANGED <<cache, currentSizeMB, now, histVars, sliceVars, seriesVars,
                   nc, disposed, appVars>>

NextQuantize == QuantizeSlice

SpecQuantize == InitQuantize /\ [][NextQuantize]_vars

\* ------------------------------------ chunked slices and series, by value
\* new Uint8Array(rawData), one element: the integer modulo 2^8.
ToUint8(v) == v % 256

\* new Int16Array(rawData), one element: the integer modulo 2^16, taken in
\* -2^15 .. 2^15 - 1.
ToInt16(v) ==
    LET m == v % 65536 IN IF m >= 32768 THEN m - 65536 ELSE m

\* new Float32Array(rawData), one element, of either sign.
Float32Of(v) == IF v < 0 THEN 0 - ToFloat32(0 - v) ELSE ToFloat32(v)

\* The integer v is a value a typed array of the type holds.
Holds(rawType, v) ==
    CASE rawType = "Uint8Array" -> v \in 0 .. 255
      [] rawType = "Int8Array" -> v \in (0 - 128) .. 127
      [] rawType = "Int16Array" -> v \in (0 - 32768) .. 32767
      [] rawType = "Float32Array" -> Float32Of(v) = v
      [] OTHER -> TRUE

\* The value of the variable's first cell: the cells hold consecutive
\* integers from it on, around 0, 2^8, 2^15 and 2^24.
FirstValues == {0 - 3, 0, 253, 32765, 16777215}

\* this.dataset.shape of the datasets whose slices are decoded by value.
RefShapes == [time : 1 .. 2, height : 1 .. 2, width : 1 .. 2]

\* Cell e of the variable, in time-major order.
NcElem(first, e) == first + e

\* dataset.slice([timeIndex, 0, 0], [1, height, width]) of a correct reader.
NcSlab(first, shape, timeIndex) ==
    [k \in 0 .. (shape.height * shape.width - 1) |->
        NcElem(first, timeIndex * shape.height * shape.width + k)]

\* dataset.slice([0, y, x], [timeSteps, 1, 1]) of a correct reader.
NcColumn(first, shape, y, x) ==
    [t \in 0 .. (shape.time - 1) |->
        NcElem(first, t * shape.height * shape.width + y * shape.width + x)]

\* resultData of NetCDFLazyDataset.getSlice, element by element: the
\* quantization rules applied to the values of rawData.
QuantizeValues(dataVarName, rawType, rawData) ==
    IF dataVarName \in {"illumination", "orbiter_visibility"}
    THEN IF rawType = "Uint8Array" THEN rawData
         ELSE [k \in DOMAIN rawData |-> ToUint8(rawData[k])]
    ELSE IF dataVarName \in {"dte_visibility", "night_flag"}
    THEN LET input == IF rawType \in {"Float32Array", "Int8Array", "Uint8Array"}
                      THEN rawData
                      ELSE [k \in DOMAIN rawData |-> Float32Of(rawData[k])]
         IN  packBinaryData([k \in DOMAIN input |-> Num(input[k])])
    ELSE IF dataVarName = "darkness_duration"
    THEN IF rawType = "Int16Array" THEN rawData
         ELSE [k \in DOMAIN rawData |-> ToInt16(rawData[k])]
    ELSE IF rawType = "Float32Array" THEN rawData
         ELSE [k \in DOMAIN rawData |-> Float32Of(rawData[k])]

\* The cells of the variable, all of them values its type holds.
AllHeld(rawType, first, shape) ==
    \A e \in 0 .. (shape.time * shape.height * shape.width - 1) :
        Holds(rawType, NcElem(first, e))

\* Nothing else is going on; a chunked dataset is open on a variable.
InitRefine ==
    /\ InitCache
    /\ AppOff
    /\ calls = [c \in CallSlots |-> Idle]
    /\ reads = 0
    /\ disposed = {}
    /\ SeriesOff
    /\ codec \in {c \in [pc : {"open"}, dataVarName : VarNames,
                         rawType : RawTypes, shape : RefShapes,
                         first : FirstValues, done : {{}},
                         timeIndex : {0}, y : {0}, x : {0},
                         slice : {<<>>}, series : {<<>>}] :
                     AllHeld(c.rawType, c.first, c.shape)}

\* getSlice(timeIndex) on a cache miss: the slice it builds from what a
\* correct reader returns.
NcSliceByValue(timeIndex) ==
    /\ codec.pc = "open"
    /\ "slice" \notin codec.done
    /\ timeIndex < codec.shape.time
    /\ codec' = [codec EXCEPT
                    !.done = @ \cup {"slice"},
                    !.timeIndex = timeIndex,
                    !.slice = QuantizeValues(codec.dataVarName, codec.rawType,
                                  NcSlab(codec.first, codec.shape, timeIndex))]
    /\ last' = [op |-> "ncSliceByValue"]
    /\ UNCHANGED <<cache, currentSizeMB, now, histVars, sliceVars, seriesVars,
                   nc, disposed, appVars>>

\* getPixelTimeSeries(y, x): the series it builds from what a correct reader
\* returns.
NcSeriesByValue(y, x) ==
    /\ codec.pc = "open"
    /\ "series" \notin codec.done
    /\ y < codec.shape.height
    /\ x < codec.shape.width
    /\ codec' = [codec EXCEPT
                    !.done = @ \cup {"series"},
                    !.y = y,
                    !.x = x,
                    !.series = SeriesFromRaw(codec.shape, y, x,
                                   NcColumn(codec.first, codec.shape, y, x))]
    /\ last' = [op |-> "ncSeriesByValue"]
    /\ UNCHANGED <<cache, currentSizeMB, now, histVars, sliceVars, seriesVars,
                   nc, disposed, appVars>>

NextRefine ==
    \/ \E timeIndex \in 0 .. 1 : NcSliceByValue(timeIndex)
    \/ \E y \in 0 .. 1, x \in 0 .. 1 : NcSeriesByValue(y, x)

SpecRefine == InitRefine /\ [][NextRefine]_vars

\* ------------------------------------- application: pixel time series
\* The getPixelTimeSeries calls the effect issues in one run.
MaxCalls == 3

\* dimensions of the one visible data layer, "L", which has a lazyDataset.
PlotShape == [time |-> 2, height |-> 2, width |-> 2]

\* The values of selectedPixel: a pixel of the layer "L" or of a layer that
\* is not there, in the layer's rows 0 and 1 or below them.
PlotPixels == [layerId : {"L", "gone"}, y : 0 .. 2, x : {0}]

\* The values of selectedCellForPlot.
PlotCells == [y : 0 .. 2, x : {0}]

\* The calls the effect can have pending: the n-th call, for a pixel of the
\* layer.
PlotCalls == [n : 1 .. MaxCalls, y : 0 .. 1, x : {0}]

\* The pixel the effect plots, or null: selectedCellForPlot on the top
\* visible data layer if there is one, else selectedPixel on its own layer;
\* null when the layer is missing or the pixel is outside its dimensions.
PlotTarget(p) ==
    IF p.selectedCellForPlot # Null
    THEN IF /\ p.selectedCellForPlot.y < PlotShape.height
            /\ p.selectedCellForPlot.x < PlotShape.width
         THEN [y |-> p.selectedCellForPlot.y, x |-> p.selectedCellForPlot.x]
         ELSE Null
    ELSE IF p.selectedPixel # Null
    THEN IF /\ p.selectedPixel.layerId = "L"
            /\ p.selectedPixel.y < PlotShape.height
            /\ p.selectedPixel.x < PlotShape.width
         THEN [y |-> p.selectedPixel.y, x |-> p.selectedPixel.x]
         ELSE Null
    ELSE Null

\* The effect on [selectedPixel, selectedCellForPlot, layers], run with the
\* selection of p: setTimeSeriesData(null), or a getPixelTimeSeries call of
\* the layer's lazyDataset whose result is set when it arrives. The calls
\* of earlier runs stay pending.
PlotEffect(p) ==
    IF PlotTarget(p) = Null
    THEN [p EXCEPT !.timeSeriesData = Null]
    ELSE [p EXCEPT !.calls = @ + 1,
                   !.pending = @ \cup {[n |-> p.calls + 1,
                                        y |-> PlotTarget(p).y,
                                        x |-> PlotTarget(p).x]}]

\* setSelectedPixel(v), and the effect that follows the render.
SetSelectedPixel(v) ==
    /\ plot.calls < MaxCalls
    /\ v # plot.selectedPixel
    /\ plot' = PlotEffect([plot EXCEPT !.selectedPixel = v])
    /\ last' = [op |-> "setSelectedPixel"]
    /\ UNCHANGED <<cache, currentSizeMB, now, histVars, sliceVars, seriesVars,
                   nc, disposed, codec, edit, player>>

\* setSelectedCellForPlot(v), and the effect that follows the render.
SetSelectedCellForPlot(v) ==
    /\ plot.calls < MaxCalls
    /\ v # plot.selectedCellForPlot
    /\ plot' = PlotEffect([plot EXCEPT !.selectedCellForPlot = v])
    /\ last' = [op |-> "setSelectedCellForPlot"]
    /\ UNCHANGED <<cache, currentSizeMB, now, histVars, sliceVars, seriesVars,
                   nc, disposed, codec, edit, player>>

\* A pending call resolves: .then(series => setTimeSeriesData({data: series,
\* range})).
PlotSeriesResolved(c) ==
    /\ c \in plot.pending
    /\ plot' = [plot EXCEPT
                   !.pending = @ \ {c},
                   !.timeSeriesData =
                       [data |-> Hyperslab(PlotShape, c.y, c.x), range |-> "L"]]
    /\ last' = [op |-> "plotSeriesResolved", n |-> c.n]
    /\ UNCHANGED <<cache, currentSizeMB, now, histVars, sliceVars, seriesVars,
                   nc, disposed, codec, edit, player>>

\* A pending call rejects: .catch(err => setTimeSeriesData(null)).
PlotSeriesRejected(c) ==
    /\ c \in plot.pending
    /\ plot' = [plot EXCEPT !.pending = @ \ {c}, !.timeSeriesData = Null]
    /\ last' = [op |-> "plotSeriesRejected", n |-> c.n]
    /\ UNCHANGED <<cache, currentSizeMB, now, histVars, sliceVars, seriesVars,
                   nc, disposed, codec, edit, player>>

NextPlot ==
    \/ \E v \in PlotPixels \cup {Null} : SetSelectedPixel(v)
    \/ \E v \in PlotCells \cup {Null} : SetSelectedCellForPlot(v)
    \/ \E c \in PlotCalls : PlotSeriesResolved(c)
    \/ \E c \in PlotCalls : PlotSeriesRejected(c)

SpecPlot == Init /\ [][NextPlot]_vars

\* ---------------------------------------------- application: undo / redo
\* The cap of the two stacks (imported from config/defaults).
MAX_HISTORY_STATES == 2

\* An artifact or an event: its id, and the rest of it as one value.
Item(id, v) == [id |-> id, v |-> v]

\* The configurations a session is restored from.
Configs ==
    {[artifacts |-> <<Item("p", 0)>>, events |-> <<>>],
     [artifacts |-> <<>>, events |-> <<Item("e", 0)>>]}

\* The lists of events the runs are kept to.
EventLists == {<<>>, <<Item("e", 0)>>, <<Item("e", 1)>>}

\* prev.map(a => a.id === id ? {...a, ...updates} : a)
UpdateItems(items, id, v) ==
    [k \in DOMAIN items |-> IF items[k].id = id THEN Item(id, v) ELSE items[k]]

\* prev.filter(a => a.id !== id)
RemoveItems(items, id) == SelectSeq(items, LAMBDA a : a.id # id)

\* cloneHistoryState(), and currentState of saveStateToHistory: a deep copy
\* of artifacts and events.
cloneHistoryState(e) == [artifacts |-> e.artifacts, events |-> e.events]

\* Mutant of Capped: the newest states are dropped, the oldest kept.
CappedKeepOldest(newStack) ==
    IF Len(newStack) > MAX_HISTORY_STATES
    THEN SubSeq(newStack, 1, MAX_HISTORY_STATES)
    ELSE newStack

\* newStack.length > MAX_HISTORY_STATES
\*     ? newStack.slice(newStack.length - MAX_HISTORY_STATES) : newStack
Capped(newStack) ==
    IF Len(newStack) > MAX_HISTORY_STATES
    THEN SubSeq(newStack, Len(newStack) - MAX_HISTORY_STATES + 1, Len(newStack))
    ELSE newStack

\* Mutant of saveStateToHistory: the redo stack is left as it is.
saveStateKeepRedo(e) ==
    [e EXCEPT !.undoStack = Capped(Append(@, cloneHistoryState(e)))]

\* saveStateToHistory(): the current state is pushed onto the undo stack
\* and the redo stack is emptied.
saveStateToHistory(e) ==
    [e EXCEPT !.undoStack = Capped(Append(@, cloneHistoryState(e))),
              !.redoStack = <<>>]

\* Mutant of onUndo: the state that is restored is pushed onto the redo
\* stack, not the current one.
onUndoPushPrevious(e) ==
    IF Len(e.undoStack) = 0 THEN e
    ELSE LET previousState == e.undoStack[Len(e.undoStack)] IN
         [artifacts |-> previousState.artifacts,
          events    |-> previousState.events,
          redoStack |-> Capped(Append(e.redoStack, previousState)),
          undoStack |-> SubSeq(e.undoStack, 1, Len(e.undoStack) - 1)]

\* onUndo()
onUndo(e) ==
    IF Len(e.undoStack) = 0 THEN e
    ELSE LET currentState  == cloneHistoryState(e)
             previousState == e.undoStack[Len(e.undoStack)]
         IN  [artifacts |-> previousState.artifacts,
              events    |-> previousState.events,
              redoStack |-> Capped(Append(e.redoStack, currentState)),
              undoStack |-> SubSeq(e.undoStack, 1, Len(e.undoStack) - 1)]

\* onRedo()
onRedo(e) ==
    IF Len(e.redoStack) = 0 THEN e
    ELSE LET currentState == cloneHistoryState(e)
             nextState    == e.redoStack[Len(e.redoStack)]
         IN  [artifacts |-> nextState.artifacts,
              events    |-> nextState.events,
              undoStack |-> Capped(Append(e.undoStack, currentState)),
              redoStack |-> SubSeq(e.redoStack, 1, Len(e.redoStack) - 1)]

\* canUndo and canRedo of the context value.
canUndo == Len(edit.undoStack) > 0
canRedo == Len(edit.redoStack) > 0

\* The handlers that record a new action.
RecordedOps ==
    {"onUpdateArtifact", "onRemoveArtifact", "onAddEvent", "onUpdateEvent",
     "onRemoveEvent"}

\* What a recording handler leaves in `last`: the stacks' state before it.
Recorded(op) ==
    [op |-> op, before |-> cloneHistoryState(edit), hadRedo |-> canRedo,
     wasFull |-> Len(edit.undoStack) = MAX_HISTORY_STATES]

\* What onUndo and onRedo leave in `last`: whether a state was restored, the
\* artifacts and events before the call, and the same of the call before it
\* when that was an undo or a redo.
Moved(op, moved) ==
    [op |-> op, moved |-> moved, before |-> cloneHistoryState(edit),
     prev |-> IF last.op \in {"onUndo", "onRedo"}
              THEN [op |-> last.op, moved |-> last.moved, before |-> last.before]
              ELSE Null]

\* handleRestoreSession: setArtifacts(config.artifacts || []) and
\* setEvents(config.events || []); the stacks are not touched.
RestoreArtifacts(config) ==
    /\ edit' = [edit EXCEPT !.artifacts = config.artifacts,
                            !.events = config.events]
    /\ last' = [op |-> "handleRestoreSession"]
    /\ UNCHANGED <<cache, currentSizeMB, now, histVars, sliceVars, seriesVars,
                   nc, disposed, codec, plot, player>>

OnUpdateArtifact(id, v) ==
    /\ edit' = [saveStateToHistory(edit) EXCEPT
                   !.artifacts = UpdateItems(@, id, v)]
    /\ last' = Recorded("onUpdateArtifact")
    /\ UNCHANGED <<cache, currentSizeMB, now, histVars, sliceVars, seriesVars,
                   nc, disposed, codec, plot, player>>

OnRemoveArtifact(id) ==
    /\ edit' = [saveStateToHistory(edit) EXCEPT
                   !.artifacts = RemoveItems(@, id)]
    /\ last' = Recorded("onRemoveArtifact")
    /\ UNCHANGED <<cache, currentSizeMB, now, histVars, sliceVars, seriesVars,
                   nc, disposed, codec, plot, player>>

OnAddEvent(event) ==
    /\ Append(edit.events, event) \in EventLists
    /\ edit' = [saveStateToHistory(edit) EXCEPT !.events = Append(@, event)]
    /\ last' = Recorded("onAddEvent")
    /\ UNCHANGED <<cache, currentSizeMB, now, histVars, sliceVars, seriesVars,
                   nc, disposed, codec, plot, player>>

OnUpdateEvent(id, v) ==
    /\ edit' = [saveStateToHistory(edit) EXCEPT !.events = UpdateItems(@, id, v)]
    /\ last' = Recorded("onUpdateEvent")
    /\ UNCHANGED <<cache, currentSizeMB, now, histVars, sliceVars, seriesVars,
                   nc, disposed, codec, plot, player>>

OnRemoveEvent(id) ==
    /\ edit' = [saveStateToHistory(edit) EXCEPT !.events = RemoveItems(@, id)]
    /\ last' = Recorded("onRemoveEvent")
    /\ UNCHANGED <<cache, currentSizeMB, now, histVars, sliceVars, seriesVars,
                   nc, disposed, codec, plot, player>>

Undo ==
    /\ edit' = onUndo(edit)
    /\ last' = Moved("onUndo", canUndo)
    /\ UNCHANGED <<cache, currentSizeMB, now, histVars, sliceVars, seriesVars,
                   nc, disposed, codec, plot, player>>

Redo ==
    /\ edit' = onRedo(edit)
    /\ last' = Moved("onRedo", canRedo)
    /\ UNCHANGED <<cache, currentSizeMB, now, histVars, sliceVars, seriesVars,
                   nc, disposed, codec, plot, player>>

NextEdit ==
    \/ \E config \in Configs : RestoreArtifacts(config)
    \/ \E v \in {0, 1} : OnUpdateArtifact("p", v)
    \/ OnRemoveArtifact("p")
    \/ OnAddEvent(Item("e", 0))
    \/ \E v \in {0, 1} : OnUpdateEvent("e", v)
    \/ OnRemoveEvent("e")
    \/ Undo
    \/ Redo

SpecEdit == Init /\ [][NextEdit]_vars

\* ------------------------------------------------ application: playback
\* The date indices of the runs.
DateIndices == 0 .. 3

\* A date index that is not null.
Index(n) == [null |-> FALSE, v |-> n]

\* TimeRange values: start and end, start not after end.
TimeRanges == {r \in [start : DateIndices, end : DateIndices] : r.start <= r.end}

\* The updater the animation passes to setCurrentDateIndex: the index after
\* currentIndex, or the start of the playback range past its end; the index
\* is left alone when it is null or there is no playback range.
NextFrameIndex(currentIndex, range) ==
    IF currentIndex = Null \/ range = Null THEN currentIndex
    ELSE LET newTime == currentIndex.v + 1 IN
         IF newTime > range.end THEN Index(range.start) ELSE Index(newTime)

\* onTogglePlay()
onTogglePlay(p) ==
    LET aboutToPlay == ~p.isPlaying IN
    IF aboutToPlay
    THEN IF ~p.isPaused
         THEN IF p.timeRange = Null \/ p.timeRange.start >= p.timeRange.end
              THEN p
              ELSE [p EXCEPT !.playbackRange = p.timeRange,
                             !.currentDateIndex = Index(p.timeRange.start),
                             !.isPaused = FALSE,
                             !.isPlaying = TRUE]
         ELSE [p EXCEPT !.isPaused = FALSE, !.isPlaying = TRUE]
    ELSE [p EXCEPT !.isPaused = TRUE, !.isPlaying = FALSE]

\* handleManualTimeRangeChange(newRange)
handleManualTimeRangeChange(p, newRange) ==
    [p EXCEPT !.isPlaying = FALSE,
              !.isPaused = FALSE,
              !.playbackRange = Null,
              !.timeRange = newRange]

\* The first data layer is added (handleAddNpyLayer, handleAddNetCdf4Layer):
\* the time range becomes the whole of its time dimension.
AddDataLayer(time) ==
    /\ ~player.primaryDataLayer
    /\ player' = [player EXCEPT !.primaryDataLayer = TRUE,
                                !.timeRange = [start |-> 0, end |-> time - 1],
                                !.currentDateIndex = Index(0)]
    /\ last' = [op |-> "onAddDataLayer"]
    /\ UNCHANGED <<cache, currentSizeMB, now, histVars, sliceVars, seriesVars,
                   nc, disposed, codec, plot, edit>>

TogglePlay ==
    /\ player' = onTogglePlay(player)
    /\ last' = [op |-> "onTogglePlay", resumed |-> player.isPaused]
    /\ UNCHANGED <<cache, currentSizeMB, now, histVars, sliceVars, seriesVars,
                   nc, disposed, codec, plot, edit>>

ManualTimeRangeChange(newRange) ==
    /\ player.primaryDataLayer
    /\ player' = handleManualTimeRangeChange(player, newRange)
    /\ last' = [op |-> "handleManualTimeRangeChange"]
    /\ UNCHANGED <<cache, currentSizeMB, now, histVars, sliceVars, seriesVars,
                   nc, disposed, codec, plot, edit>>

\* An animation frame after frameDuration has elapsed; the animation runs
\* while isPlaying.
Frame ==
    /\ player.isPlaying
    /\ player' = [player EXCEPT
                     !.currentDateIndex =
                         NextFrameIndex(@, player.playbackRange)]
    /\ last' = [op |-> "animate"]
    /\ UNCHANGED <<cache, currentSizeMB, now, histVars, sliceVars, seriesVars,
                   nc, disposed, codec, plot, edit>>

\* handleRestoreSession: setTimeRange(config.timeRange) and
\* setCurrentDateIndex(config.timeRange?.start ?? null); isPlaying, isPaused
\* and playbackRange.current are not touched.
RestoreTimeRange(timeRange) ==
    /\ player' = [player EXCEPT
                     !.primaryDataLayer = TRUE,
                     !.timeRange = timeRange,
                     !.currentDateIndex =
                         IF timeRange = Null THEN Null
                         ELSE Index(timeRange.start)]
    /\ last' = [op |-> "handleRestoreSession"]
    /\ UNCHANGED <<cache, currentSizeMB, now, histVars, sliceVars, seriesVars,
                   nc, disposed, codec, plot, edit>>

\* Mounting, layers, the playback controls and the time range control.
NextControls ==
    \/ \E time \in {1, 3} : AddDataLayer(time)
    \/ TogglePlay
    \/ \E newRange \in TimeRanges : ManualTimeRangeChange(newRange)
    \/ Frame

NextPlay ==
    \/ NextControls
    \/ \E timeRange \in TimeRanges \cup {Null} : RestoreTimeRange(timeRange)

SpecPlay == Init /\ [][NextPlay]_vars

\* ------------------------------------------------------------ claims
\* A step that is a call of SliceCache.set (every action writes `last`).
IsSetStep == last'.op = "set"

\* C1: in every reachable state of the cache the byte sizes of the entries
\* present sum to at most the budget, or the cache holds exactly one entry.
C1_BudgetOrSingleton ==
    SumLen(cache) <= SLICE_CACHE_SIZE_MB \/ Len(cache) = 1

\* The oversized singleton: a set evicted everything and stored a slice over
\* the budget.
C1_Witness ==
    /\ last.op = "set"
    /\ last.evicted # <<>>
    /\ Len(cache) = 1
    /\ SumLen(cache) > SLICE_CACHE_SIZE_MB

\* C2: between two cache operations the tracked total equals the sum of the
\* byte sizes of the entries get can retrieve (zero for an empty cache).
C2_TrackedTotalIsSum ==
    currentSizeMB = SumLen(cache)

\* The entries of c that were stored for another dataset than fileId.
RECURSIVE EntriesNotOf(_, _)
EntriesNotOf(c, fileId) ==
    IF c = <<>> THEN <<>>
    ELSE IF Head(c).fileId = fileId THEN EntriesNotOf(Tail(c), fileId)
         ELSE <<Head(c)>> \o EntriesNotOf(Tail(c), fileId)

\* C4: clearForFile(d) removes every entry of dataset d and no entry of any
\* other dataset; the others keep place, data and lastAccess.
C4_ClearAllAndOnly ==
    [][last'.op = "clear" => cache' = EntriesNotOf(cache, last'.fileId)]_vars

\* C5: three entries of distinct keys inserted in the order A, B, C with no
\* get hit since; a set that then evicts exactly one entry evicts A and
\* leaves B and C.
C5_OldestInsertedEvicted ==
    (/\ last.op = "set"
     /\ last.run.clean
     /\ Len(last.run.keys) = 3
     /\ Len(last.evicted) = 1)
    => /\ last.evicted[1] = last.run.keys[1]
       /\ IndexOfKey(cache, last.run.keys[2]) # 0
       /\ IndexOfKey(cache, last.run.keys[3]) # 0

\* A, B, C went in within the same millisecond and a fourth key pushed A out.
C5_Witness ==
    /\ last.op = "set"
    /\ last.run.clean
    /\ Len(last.run.keys) = 3
    /\ Len(last.evicted) = 1
    /\ Len(cache) = 3
    /\ \A i \in 1 .. 3 : cache[i].lastAccess = cache[1].lastAccess
    /\ \A i \in 1 .. 3 : getKey(last.fileId, last.timeIndex) # last.run.keys[i]

\* C6 as stated: when a get hit of k is the latest access to any entry and the
\* cache holds another entry, the next eviction takes an entry other than k.
C6_GetMakesMostRecent ==
    (/\ last.op = "set"
     /\ last.mru # ""
     /\ last.preLen >= 2
     /\ last.evicted # <<>>)
    => last.evicted[1] # last.mru

\* C6 as amended: the same, when some other entry's lastAccess is strictly
\* older than the one the get gave k.
C6_GetProtectsAgainstOlder ==
    [][(/\ IsSetStep
        /\ latestGet # ""
        /\ last'.evicted # <<>>
        /\ \E i \in 1 .. Len(cache) :
              /\ cache[i].key # latestGet
              /\ cache[i].lastAccess < cache[IndexOfKey(cache, latestGet)].lastAccess)
       => last'.evicted[1] # latestGet]_vars

\* A get hit of the first-inserted entry, then a set that evicted another one
\* and left the entry that was hit.
C6_Witness ==
    /\ last.op = "set"
    /\ last.mru # ""
    /\ last.preLen >= 3
    /\ Len(last.evicted) = 1
    /\ last.evicted[1] # last.mru
    /\ IndexOfKey(cache, last.mru) = 1

\* The byte sizes, summed, of the entries of c stored under keys.
RECURSIVE SumOfKeys(_, _)
SumOfKeys(c, keys) ==
    IF keys = <<>> THEN 0
    ELSE c[IndexOfKey(c, Head(keys))].data.len + SumOfKeys(c, Tail(keys))

\* C7: a set of a slice of size s evicts exactly the shortest prefix, in
\* ascending lastAccess order, of the entries present whose removal makes
\* (sum over the entries still present) + s <= budget, all entries when no
\* prefix does, and nothing when the sum over the entries present plus s fits.
C7_ShortestLruPrefix ==
    [][IsSetStep =>
        LET ev == last'.evicted
            n  == Len(ev)
            s  == last'.data.len
            evAt(k) == cache[IndexOfKey(cache, ev[k])]
            gone(k) == SumOfKeys(cache, SubSeq(ev, 1, k))
        IN  /\ \A k \in 1 .. n : IndexOfKey(cache, ev[k]) # 0
            \* ascending lastAccess, and nothing older is left behind
            /\ \A k \in 1 .. n : \A i \in 1 .. Len(cache) :
                   (\A m \in 1 .. k : cache[i].key # ev[m])
                   => evAt(k).lastAccess <= cache[i].lastAccess
            \* every eviction was needed
            /\ \A k \in 0 .. (n - 1) :
                   SumLen(cache) - gone(k) + s > SLICE_CACHE_SIZE_MB
            \* and they suffice, or nothing is left to evict
            /\ \/ SumLen(cache) - gone(n) + s <= SLICE_CACHE_SIZE_MB
               \/ n = Len(cache)]_vars

\* C8: set never rejects a slice: right after set(d, t, s), get(d, t) gives
\* s, whatever its size; a slice over the whole budget is then the only entry.
C8_SetAlwaysStores ==
    last.op = "set"
    => /\ CacheLookup(cache, last.fileId, last.timeIndex) = last.data
       /\ last.data.len > SLICE_CACHE_SIZE_MB => Len(cache) = 1

\* A slice over the budget went in and pushed two entries out.
C8_Witness ==
    /\ last.op = "set"
    /\ last.data.len > SLICE_CACHE_SIZE_MB
    /\ Len(last.evicted) >= 2
    /\ CacheLookup(cache, last.fileId, last.timeIndex) = last.data

\* A step in which a getSlice call returns a slice to its caller.
SliceReturned(l) == l.op = "getSlice" /\ l.outcome \in {"hit", "stored"}

\* C3: two getSlice(t) calls of one dataset overlap and both miss; when the
\* second of them stores its slice over the first one's, the cache holds one
\* entry for the key, with the later slice, and the tracked total counts the
\* key once (it moves by exactly what the sum over the entries moves).
C3_LastPutCountedOnce ==
    [][(/\ last'.op = "getSlice"
        /\ last'.outcome = "stored"
        /\ last'.reput)
       => LET key == getKey(DsFileId(last'.ds), last'.t) IN
          /\ Cardinality({i \in 1 .. Len(cache') : cache'[i].key = key}) = 1
          /\ CacheLookup(cache', DsFileId(last'.ds), last'.t) = last'.ret
          /\ currentSizeMB' - SumLen(cache') = currentSizeMB - SumLen(cache)]_vars

\* C9: right after a getSlice(t) returned a slice, getCachedSlice(t) gives
\* that slice, and a getSlice(t) that finds the entry returns the same object
\* without a read and without suspending.
C9_SecondCallServedFromCache ==
    [][/\ SliceReturned(last')
          => CacheLookup(cache', DsFileId(last'.ds), last'.t) = last'.ret
       /\ (/\ last'.op = "getSlice"
           /\ last'.outcome \in {"hit", "miss"}
           /\ CacheLookup(cache, DsFileId(last'.ds), last'.t) # Undefined)
          => /\ last'.outcome = "hit"
             /\ last'.ret = CacheLookup(cache, DsFileId(last'.ds), last'.t)
             /\ reads' = reads
             /\ calls' = calls]_vars

\* A getSlice was served from the cache with the array an earlier call read,
\* while a read is still in flight elsewhere.
C9_Witness ==
    /\ last.op = "getSlice"
    /\ last.outcome = "hit"
    /\ last.ret.obj >= 1
    /\ reads >= 2

\* C10: the sequence getPixelTimeSeries(y, x) returns is ordered by time
\* whatever order the reads of a batch completed in: it has `time` elements
\* and element t is the file's value for pixel (y, x) at time index t.
C10_SeriesOrderedByTime ==
    pts.pc = "returned"
    => /\ DOMAIN pts.results = 0 .. (metadata.time - 1)
       /\ \A t \in 0 .. (metadata.time - 1) :
              pts.results[t] =
                  FileValue(metadata, t * metadata.height * metadata.width
                                      + pts.y * metadata.width + pts.x)

\* A series of several batches returned although reads completed out of
\* time order.
C10_Witness ==
    /\ pts.pc = "returned"
    /\ Len(pts.batches) >= 2
    /\ Len(pts.order) = metadata.time
    /\ \E k \in 1 .. (Len(pts.order) - 1) : pts.order[k] > pts.order[k + 1]

\* C11: within one getPixelTimeSeries call of the flat-binary dataset a batch
\* is issued only when no read of the call is outstanding, and at any moment
\* at most batchSize (at most 50) reads of the call are outstanding.
C11_BatchesSequential ==
    [][/\ (last'.op = "getPixelTimeSeries" /\ last'.step = "issue")
           => pts.pending = {}
       /\ pts'.pc # "idle"
           => /\ Cardinality(pts'.pending) <= batchSize
              /\ Cardinality(pts'.pending) <= BATCH_SIZE]_vars

\* A second batch has just been issued, full, after the first one drained.
C11_Witness ==
    /\ last.op = "getPixelTimeSeries"
    /\ last.step = "issue"
    /\ Len(pts.batches) >= 2
    /\ Cardinality(pts.pending) = batchSize
    /\ Len(pts.order) = batchSize

\* C12: a getPixelTimeSeries call of the flat-binary dataset that returns has
\* issued exactly ceil(time / 50) batches, each of 50 reads except a last one
\* of (time mod 50) reads when that is not zero: 50, 50, 20 for time = 120,
\* and for time = 0 no batch and an empty result.
C12_BatchCountAndSizes ==
    pts.pc = "returned"
    => LET time == metadata.time
           n    == Len(pts.batches)
       IN  /\ n = (time + BATCH_SIZE - 1) \div BATCH_SIZE
           /\ \A k \in 1 .. n :
                  pts.batches[k] =
                      IF k < n \/ time % BATCH_SIZE = 0
                      THEN BATCH_SIZE ELSE time % BATCH_SIZE
           /\ time = 120 => pts.batches = <<50, 50, 20>>
           /\ time = 0 => pts.batches = <<>> /\ DOMAIN pts.results = {}

\* The series of 120 time steps has returned after its three batches.
C12_Witness ==
    /\ pts.pc = "returned"
    /\ metadata.time = 120
    /\ pts.batches = <<50, 50, 20>>
    /\ Len(pts.order) = 120

\* C13: for the time-major flat-binary dataset, every (y, x) in range and
\* every t in [0, time), element t of the sequence getPixelTimeSeries(y, x)
\* returns equals the value at index y * width + x of the slice getSlice(t)
\* returns.
C13_SeriesMatchesSlices ==
    pts.pc = "returned"
    => \A t \in 0 .. (metadata.time - 1) :
           pts.results[t] = FloatData(metadata, t)[pts.y * metadata.width + pts.x]

\* C14: once a read of a getPixelTimeSeries call has failed, the call has
\* failed, with the first failure, and it never returns a sequence: the
\* values earlier batches obtained are not returned.
C14_FailureFailsTheCall ==
    (pts.pc # "idle" /\ pts.failed # {})
    => /\ pts.pc = "failed"
       /\ pts.error \in pts.failed

\* A read of the second batch failed after the whole first batch had
\* delivered its values.
C14_Witness ==
    /\ pts.pc = "failed"
    /\ Len(pts.batches) >= 2
    /\ Len(pts.order) >= batchSize
    /\ pts.error >= batchSize

\* C15: when the reader of a chunked dataset returns the whole
\* time * height * width buffer instead of the hyperslab,
\* getPixelTimeSeries(y, x) returns exactly `time` elements and element t
\* is buffer[t * height * width + y * width + x].
C15_FullBufferFallback ==
    (nc.pc = "returned" /\ nc.reader = "full")
    => /\ DOMAIN nc.result = 0 .. (nc.shape.time - 1)
       /\ \A t \in 0 .. (nc.shape.time - 1) :
              nc.result[t] =
                  nc.rawData[t * nc.shape.height * nc.shape.width
                             + nc.y * nc.shape.width + nc.x]

\* The whole buffer of a variable with several pixels and time steps came
\* back and the series of a pixel other than the first was returned.
C15_Witness ==
    /\ nc.pc = "returned"
    /\ nc.reader = "full"
    /\ nc.shape.time >= 2
    /\ nc.shape.height * nc.shape.width >= 2
    /\ nc.y * nc.shape.width + nc.x >= 1
    /\ Length(nc.rawData) > nc.shape.time

\* C16 (as stated): whenever getPixelTimeSeries(y, x) returns normally, on
\* either dataset variant and whatever the backing reader returned, the
\* result has exactly `time` elements.
C16_ExactlyTimeElements ==
    /\ pts.pc = "returned" => DOMAIN pts.results = 0 .. (metadata.time - 1)
    /\ nc.pc = "returned" => DOMAIN nc.result = 0 .. (nc.shape.time - 1)

\* C16 (amended): whenever getPixelTimeSeries(y, x) returns normally the
\* result has exactly `time` elements on the flat-binary variant, and on the
\* chunked variant when the reader returned `time` or time * height * width
\* elements.
C16_TimeElementsForKnownLengths ==
    /\ pts.pc = "returned" => DOMAIN pts.results = 0 .. (metadata.time - 1)
    /\ ( /\ nc.pc = "returned"
         /\ Length(nc.rawData) \in
                {nc.shape.time,
                 nc.shape.time * nc.shape.height * nc.shape.width} )
       => DOMAIN nc.result = 0 .. (nc.shape.time - 1)

\* Both variants have returned a series: the chunked one through the
\* whole-buffer fallback, from more elements than it returns.
C16_Witness ==
    /\ pts.pc = "returned"
    /\ nc.pc = "returned"
    /\ nc.shape.time >= 1
    /\ Length(nc.rawData) = nc.shape.time * nc.shape.height * nc.shape.width
    /\ Length(nc.rawData) > Length(nc.result)

\* C17: in the state right after dispose() of dataset d returns, the cache
\* holds no entry stored for d's identifier and the stats of d report zero
\* entries and zero bytes.
C17_DisposePurges ==
    last.op = "dispose"
    => /\ \A i \in 1 .. Len(cache) : cache[i].fileId # DsFileId(last.ds)
       /\ GetStatsForFile(cache, DsFileId(last.ds)) =
              [cacheSize |-> 0, totalSizeMB |-> 0]

\* A dispose() whose release of the file succeeded has just removed entries
\* of its dataset.
C17_Witness ==
    /\ last.op = "dispose"
    /\ ~last.closeFailed
    /\ last.purged >= 1

\* C18: after dispose() of a dataset has returned, a getSlice call newly
\* started on that dataset issues no read to the backing source.
C18_NoReadAfterDispose ==
    [][reads' # reads => ~last'.late]_vars

\* C19: dispose() never raises to its caller: when the release of the file
\* fails the failure is logged only, and the entries of the dataset have
\* been purged from the cache all the same.
C19_DisposeNeverRaises ==
    last.op = "dispose"
    => /\ ~last.raised
       /\ last.closeFailed => last.logged
       /\ \A i \in 1 .. Len(cache) : cache[i].fileId # DsFileId(last.ds)

\* The release of the file failed in a dispose() that had entries to purge.
C19_Witness ==
    /\ last.op = "dispose"
    /\ last.closeFailed
    /\ last.logged
    /\ last.purged >= 1

\* C20: getSlice(t) with t outside [0, time) fails with OutOfRange, on both
\* variants, without issuing a read and without changing the cache.
C20_OutOfRangeRejected ==
    [][(last'.op = "getSlice" /\ last'.t \notin 0 .. (DsTime(last'.ds) - 1))
       => /\ last'.outcome = "outOfRange"
          /\ reads' = reads
          /\ cache' = cache
          /\ currentSizeMB' = currentSizeMB]_vars

\* C21: when the read of a getSlice call fails, the error of that read
\* reaches the caller and the call is over after exactly one read (no
\* retry); no step of the call has changed the cache's entries, their
\* lastAccess or the total size.
C21_FailurePropagatesCacheUntouched ==
    [][/\ (last'.op = "getSlice" /\ last'.outcome = "threw")
           => /\ calls'[last'.call] = Idle
              /\ last'.nreads = 1
              /\ last'.error = IF calls[last'.call].pc = "reading"
                               THEN calls[last'.call].obj ELSE reads'
       /\ (last'.op = "getSlice" /\ last'.outcome \in {"miss", "read", "threw"})
           => /\ cache' = cache
              /\ currentSizeMB' = currentSizeMB]_vars

\* A getSlice call has just failed while the cache held a slice of an
\* earlier call.
C21_Witness ==
    /\ last.op = "getSlice"
    /\ last.outcome = "threw"
    /\ Len(cache) >= 1
    /\ reads >= 2

\* The entries of c, in order, without their lastAccess.
Untimed(c) == [i \in 1 .. Len(c) |-> [c[i] EXCEPT !.lastAccess = 0]]

\* C22: getCachedSlice(t) is a cache probe only: it issues no read, starts
\* no call, returns undefined on a miss, and neither inserts nor evicts an
\* entry nor changes the total size.
C22_CachedSliceIsProbe ==
    [][last'.op = "getCachedSlice"
       => /\ reads' = reads
          /\ calls' = calls
          /\ Untimed(cache') = Untimed(cache)
          /\ currentSizeMB' = currentSizeMB
          /\ IndexOfKey(cache, getKey(DsFileId(last'.ds), last'.t)) = 0
                 => last'.ret = Undefined]_vars

\* getCachedSlice has just hit an entry stored after an eviction, with a
\* getSlice call in flight.
C22_Witness ==
    /\ last.op = "getCachedSlice"
    /\ last.ret # Undefined
    /\ last.ret.obj >= 2
    /\ \E c \in CallSlots : calls[c].pc # "idle"

\* x is not the number zero.
NonZero(x) == x.nan \/ x.v # 0

\* Bit k of a byte.
BitOf(byte, k) == (byte \div (2 ^ k)) % 2

\* The packed array has ceil(N / 8) bytes, bit (i mod 8) of byte
\* floor(i / 8) is set iff Test holds of input i, the bits past N are zero,
\* and the ten values 1,0,1,1,0,0,0,0,1,1 pack to 13, 3.
PackLayout(Test(_)) ==
    LET data == codec.data
        out  == codec.packed
        N    == Cardinality(DOMAIN data)
    IN  /\ DOMAIN out = 0 .. (((N + 7) \div 8) - 1)
        /\ \A j \in DOMAIN out : \A k \in 0 .. 7 :
               (BitOf(out[j], k) = 1) <=> (8 * j + k < N /\ Test(data[8 * j + k]))
        /\ \A j \in DOMAIN out : out[j] \in 0 .. 255
        /\ (N = 10 /\ \A i \in 0 .. 9 :
                         data[i] = Num(IF i \in {0, 2, 3, 8, 9} THEN 1 ELSE 0))
           => (out[0] = 13 /\ out[1] = 3)

\* C23 (as stated): packing N values gives ceil(N / 8) bytes in which bit
\* (i mod 8) of byte floor(i / 8) is set iff value i is non-zero, the bits
\* past N are zero, for every N, in the groups of 8 and in the remainder
\* alike.
C23_PackLayoutNonZero ==
    codec.pc = "packed" => PackLayout(NonZero)

\* C23 (amended): the same layout, with the bit set iff value i is truthy:
\* non-zero and not NaN.
C23_PackLayoutTruthy ==
    codec.pc = "packed" => PackLayout(Truthy)

\* The ten values of the example have been packed to the bytes 13 and 3.
C23_Witness ==
    /\ codec.pc = "packed"
    /\ Cardinality(DOMAIN codec.data) = 10
    /\ \A i \in 0 .. 9 :
           codec.data[i] = Num(IF i \in {0, 2, 3, 8, 9} THEN 1 ELSE 0)
    /\ codec.packed[0] = 13
    /\ codec.packed[1] = 3

\* C24: the representation of a slice is fixed by the variable kind alone,
\* whatever the type of the raw data: illumination and orbiter_visibility
\* give unsigned 8-bit cells, dte_visibility and night_flag bit-packed bytes,
\* darkness_duration signed 16-bit cells, every other variable and every
\* flat-binary dataset 32-bit float cells.
C24_RepresentationByKind ==
    codec.pc = "quantized"
    => codec.result =
          IF codec.kind = "npy"
          THEN [type |-> "Float32Array", length |-> codec.length, packed |-> FALSE]
          ELSE IF codec.dataVarName \in {"illumination", "orbiter_visibility"}
          THEN [type |-> "Uint8Array", length |-> codec.length, packed |-> FALSE]
          ELSE IF codec.dataVarName \in {"dte_visibility", "night_flag"}
          THEN [type |-> "Uint8Array", length |-> (codec.length + 7) \div 8,
                packed |-> TRUE]
          ELSE IF codec.dataVarName = "darkness_duration"
          THEN [type |-> "Int16Array", length |-> codec.length, packed |-> FALSE]
          ELSE [type |-> "Float32Array", length |-> codec.length, packed |-> FALSE]

\* A darkness_duration slice read as 64-bit floats has been quantized.
C24_Witness ==
    /\ codec.pc = "quantized"
    /\ codec.kind = "netcdf"
    /\ codec.dataVarName = "darkness_duration"
    /\ codec.rawType = "Float64Array"
    /\ codec.length = MaxCells
    /\ codec.result.type = "Int16Array"

\* C25: in every reachable state the cache holds at most one entry per
\* (fileId, timeIndex) pair, each under the key of its pair, and two
\* different pairs never have the same key.
C25_OneEntryPerPair ==
    /\ \A i, j \in 1 .. Len(cache) :
           i # j => /\ cache[i].key # cache[j].key
                    /\ <<cache[i].fileId, cache[i].timeIndex>> #
                       <<cache[j].fileId, cache[j].timeIndex>>
    /\ \A i \in 1 .. Len(cache) :
           cache[i].key = getKey(cache[i].fileId, cache[i].timeIndex)
    /\ \A f1, f2 \in FileIds : \A t1, t2 \in TimeIdx :
           getKey(f1, t1) = getKey(f2, t2) => (f1 = f2 /\ t1 = t2)

\* A pair that was present has just been set again, next to entries of
\* another file whose name its own name is a prefix of.
C25_Witness ==
    /\ last.op = "set"
    /\ last.evicted = <<>>
    /\ last.preLen = Len(cache)
    /\ Len(cache) >= 2
    /\ \E i, j \in 1 .. Len(cache) : cache[i].fileId # cache[j].fileId

\* C26: in every reachable cache state stats(d) is the number of the entries
\* stored for dataset d and the sum of their sizes; no entry of another
\* dataset is counted.
C26_StatsCountOwnEntries ==
    \A f \in FileIds :
        GetStatsForFile(cache, f) =
            [cacheSize   |-> Len(cache) - Len(EntriesNotOf(cache, f)),
             totalSizeMB |-> SumLen(cache) - SumLen(EntriesNotOf(cache, f))]

\* The reads issued by the call are one per t in [0, time), each at
\* dataOffset + t*height*width*elementSize + (y*width + x)*elementSize, and
\* no other.
ReadsExactlyOnce ==
    /\ Len(pts.issued) = metadata.time
    /\ \A t \in 0 .. (metadata.time - 1) :
           Cardinality({k \in 1 .. Len(pts.issued) :
               pts.issued[k] =
                   metadata.headerSize
                   + t * metadata.height * metadata.width * metadata.bytesPerValue
                   + (pts.y * metadata.width + pts.x) * metadata.bytesPerValue}) = 1

\* C27: if every read that is issued completes successfully, a
\* getPixelTimeSeries(y, x) call of the flat-binary dataset eventually
\* returns, and when it has returned it has issued exactly one read per t in
\* [0, time), at the offset of pixel (y, x) at t, and no other read.
C27_SeriesReturnsAfterOneReadPerStep ==
    /\ (pts.pc \in {"yield", "await"}) ~> (pts.pc = "returned")
    /\ [](pts.pc = "returned" => ReadsExactlyOnce)

\* A series of several batches has returned, every read issued and
\* completed.
C27_Witness ==
    /\ pts.pc = "returned"
    /\ Len(pts.batches) >= 2
    /\ metadata.time >= 3
    /\ Len(pts.issued) = metadata.time
    /\ Len(pts.order) = metadata.time
    /\ pts.y * metadata.width + pts.x >= 1

\* C28: a pixel time series requested from a flat-binary dataset whose
\* layout is time-minor fails with UnsupportedLayout: no read is issued and
\* no value computed with time-major offsets is returned.
C28_TimeMinorRejected ==
    (metadata.layoutOrder = "timeMinor" /\ pts.pc # "idle")
    => /\ pts.pc = "unsupported"
       /\ pts.issued = <<>>

\* C29: once dataset d is disposed and the getSlice calls on d that were
\* started before the disposal have completed, the cache holds no entry of
\* d. Stated at the moment the last such call returns its slice: that call
\* has not stored it.
C29_NoReinsertAfterDispose ==
    ( /\ last.op = "getSlice"
      /\ last.outcome = "stored"
      /\ ~last.late
      /\ last.ds \in disposed
      /\ \A c \in CallSlots :
             calls[c].pc # "idle" => (calls[c].ds # last.ds \/ calls[c].late) )
    => \A i \in 1 .. Len(cache) : cache[i].fileId # DsFileId(last.ds)

\* C30: two distinct open datasets never see each other's slices, also when
\* they were opened from different files of the same name: what getSlice(t)
\* and getCachedSlice(t) return on one of them was decoded from its own
\* source.
C30_OwnSlicesOnly ==
    /\ (last.op = "getSlice" /\ last.outcome \in {"hit", "stored"})
           => last.ret.src = last.ds
    /\ (last.op = "getCachedSlice" /\ last.ret # Undefined)
           => last.ret.src = last.ds

\* C31: for a chunked dataset of any variable kind whose reader behaves
\* correctly, the slice getSlice(t) returns has exactly height * width
\* elements and its element y * width + x is element t of
\* getPixelTimeSeries(y, x).
C31_SeriesMatchesChunkedSlices ==
    codec.pc = "open" /\ codec.done = {"slice", "series"} =>
        /\ Length(codec.slice) = codec.shape.height * codec.shape.width
        /\ codec.series[codec.timeIndex] =
               codec.slice[codec.y * codec.shape.width + codec.x]

\* C33: quantization keeps integer cell values: every cell value of a
\* byte-granularity variable is itself in the 8-bit slice, and every cell
\* value of darkness_duration is itself in the 16-bit slice, whatever
\* integer the source holds.
C33_QuantizationKeepsIntegers ==
    /\ codec.pc = "open"
    /\ "slice" \in codec.done
    /\ codec.dataVarName \in
           {"illumination", "orbiter_visibility", "darkness_duration"}
    => \A k \in DOMAIN codec.slice :
           codec.slice[k] =
               NcSlab(codec.first, codec.shape, codec.timeIndex)[k]

\* C32: getPixelTimeSeries leaves the shared cache unchanged on both dataset
\* variants: none of its steps, of a call that succeeds or of one that
\* fails, inserts or evicts an entry, changes a lastAccess or changes the
\* total size.
C32_SeriesLeavesCacheAlone ==
    [][last'.op \in {"getPixelTimeSeries", "ncGetPixelTimeSeries"} =>
           /\ cache' = cache
           /\ currentSizeMB' = currentSizeMB]_vars

\* A series call of each variant has ended, one with its result and one by
\* failing, its last step taken while the cache held an entry of its own
\* dataset's slice that was put there earlier.
C32_Witness ==
    /\ last.op = "getPixelTimeSeries"
    /\ pts.pc \in {"returned", "failed"}
    /\ nc.pc \in {"returned", "threw"}
    /\ (pts.pc = "failed") # (nc.pc = "threw")
    /\ \E k \in 1 .. Len(cache) :
           /\ cache[k].key = getKey(DsFileId(1), 0)
           /\ cache[k].lastAccess < now

\* C34: the displayed pixel time series follows the latest selection: once
\* every pending getPixelTimeSeries call has completed, in whatever order,
\* timeSeriesData holds the series of the most recent selection and not that
\* of an earlier one.
C34_SeriesFollowsLatestSelection ==
    plot.pending = {} /\ plot.timeSeriesData # Null =>
        /\ PlotTarget(plot) # Null
        /\ plot.timeSeriesData.data =
               Hyperslab(PlotShape, PlotTarget(plot).y, PlotTarget(plot).x)

\* The n newest states of a stack (all of them when it holds fewer).
Newest(stack, n) ==
    IF Len(stack) > n THEN SubSeq(stack, Len(stack) - n + 1, Len(stack))
    ELSE stack

\* C35: after any sequence of recorded actions, undo and redo, each of the
\* two stacks holds at most MAX_HISTORY_STATES states, and a push onto a
\* full stack drops its oldest state: the stack is then the
\* MAX_HISTORY_STATES newest of the old states and the pushed one.
C35_StacksCappedOldestDropped ==
    /\ [](/\ Len(edit.undoStack) <= MAX_HISTORY_STATES
          /\ Len(edit.redoStack) <= MAX_HISTORY_STATES)
    /\ [][/\ last'.op \in RecordedOps \/ (last'.op = "onRedo" /\ canRedo) =>
                edit'.undoStack =
                    Newest(Append(edit.undoStack, cloneHistoryState(edit)),
                           MAX_HISTORY_STATES)
          /\ last'.op = "onUndo" /\ canUndo =>
                edit'.redoStack =
                    Newest(Append(edit.redoStack, cloneHistoryState(edit)),
                           MAX_HISTORY_STATES)]_vars

\* A new action was recorded on a full undo stack, whose oldest state was
\* not like the one now oldest.
C35_Witness ==
    /\ last.op \in RecordedOps
    /\ last.wasFull
    /\ Len(edit.undoStack) = MAX_HISTORY_STATES
    /\ edit.undoStack[Len(edit.undoStack)] = last.before
    /\ edit.undoStack[1] # last.before

\* C36: an undo that restores a state, followed at once by redo, leaves the
\* artifacts and events as they were before the undo, and likewise a redo
\* followed at once by undo; undo with an empty undo stack and redo with
\* an empty redo stack change nothing.
C36_UndoRedoRoundTrip ==
    /\ [](/\ last.op \in {"onUndo", "onRedo"}
          /\ last.moved
          /\ last.prev # Null
          /\ last.prev.op # last.op
          /\ last.prev.moved
          => cloneHistoryState(edit) = last.prev.before)
    /\ [][/\ last'.op = "onUndo" /\ ~canUndo => edit' = edit
          /\ last'.op = "onRedo" /\ ~canRedo => edit' = edit]_vars

\* A redo has just followed an undo that had changed the artifacts or the
\* events.
C36_Witness ==
    /\ last.op = "onRedo"
    /\ last.moved
    /\ last.prev # Null
    /\ last.prev.op = "onUndo"
    /\ last.prev.moved
    /\ last.prev.before # last.before
    /\ cloneHistoryState(edit) = last.prev.before

\* C37: every recorded new action empties the redo stack and pushes the
\* state before the action onto the undo stack, so canRedo is false right
\* after it.
C37_NewActionClearsRedo ==
    [][last'.op \in RecordedOps =>
           /\ edit'.redoStack = <<>>
           /\ ~canRedo'
           /\ Len(edit'.undoStack) > 0
           /\ edit'.undoStack[Len(edit'.undoStack)] = cloneHistoryState(edit)]_vars

\* A new action was recorded while there was something to redo.
C37_Witness ==
    /\ last.op \in RecordedOps
    /\ last.hadRedo
    /\ ~canRedo
    /\ edit.undoStack[Len(edit.undoStack)] = last.before

\* currentDateIndex, when it is a number, is inside the playback range.
InPlaybackRange ==
    player.currentDateIndex # Null =>
        /\ player.playbackRange.start <= player.currentDateIndex.v
        /\ player.currentDateIndex.v <= player.playbackRange.end

\* C38: during playback each frame advance sets currentDateIndex to the
\* previous index + 1, or to the start of the playback range when that
\* would exceed its end; while playback started or resumed through
\* onTogglePlay runs, currentDateIndex is within [start, end] of the playback
\* range; and isPlaying and isPaused are never both true after onTogglePlay
\* or handleManualTimeRangeChange.
C38_PlaybackStaysInRange ==
    /\ [][/\ last'.op = "animate"
          /\ player.currentDateIndex # Null
          /\ player.playbackRange # Null
          => player'.currentDateIndex =
                 IF player.currentDateIndex.v + 1 > player.playbackRange.end
                 THEN Index(player.playbackRange.start)
                 ELSE Index(player.currentDateIndex.v + 1)]_vars
    /\ [](player.isPlaying => (player.playbackRange # Null /\ InPlaybackRange))
    /\ [][last'.op \in {"onTogglePlay", "handleManualTimeRangeChange"} =>
              ~(player'.isPlaying /\ player'.isPaused)]_vars

====
